---- MODULE Spec2Model ----
(***************************************************************************)
(* A model of the documentation chat assistant: the generation client      *)
(* (geminiService), the two-phase query pipeline of the App component      *)
(* (handleSendMessage / handleConfirmSources) and the chat view model.     *)
(*                                                                         *)
(* Strings that the code only stores and compares are TLA+ strings.        *)
(* Strings the code builds or takes apart (prompts, the streamed answer    *)
(* text, the backend's JSON text) are sequences: of characters for         *)
(* prompts and answer text, of lexical tokens for JSON text.               *)
(***************************************************************************)
EXTENDS Integers, Sequences, FiniteSets, TLC

VARIABLES
    envKey,        \* ENV_API_KEY (process.env.API_KEY); "" when not set
    userKey,       \* localStorage DOCUMIND_API_KEY; "" when absent or empty
    ai,            \* the cached backend handle: the key it was built from, or "null"
    currentKey,    \* the module variable currentKey, or "null"
    svc,           \* the generation-client call being observed (SpecService)
    session,       \* App: whether a user is signed in
    urlGroups,     \* App: the URL groups, [id, urls]
    activeUrlGroupId,      \* App: id of the active group, "" when none
    chatMessages,  \* App: the message list of the chat view model
    currentSessionId,      \* App: id of the current chat session, 0 for null
    chatSessions,  \* App: ids of the known chat sessions, newest first
    isLoading,     \* App: the global loading flag
    isFetchingSuggestions, \* App: a suggestions fetch is running
    initialQuerySuggestions,       \* App: the suggestions on display
    isSettingsOpen,        \* App: the settings panel is open
    dbSessions,    \* remote table chat_sessions: the number of rows (ids 1..n)
    dbMessages,    \* remote table chat_messages: rows, the id of a row is its index
    tasks,         \* the handler invocations: position, locals, pending request
    dbErrors,      \* how many requests the remote tables have refused
    now,           \* the clock read by Date.now() and new Date()
    returnedSends, \* how many handleSendMessage calls returned at their guard
    calls,         \* the invocations of the other handlers: position and locals
    suggestionCalls,       \* the getInitialSuggestions calls that await the backend
    dbGroups,      \* remote table url_groups: per group id, whether its row exists
    dbGroupUrls,   \* remote table group_urls: rows [group_id, url]
    isModalOpen,   \* KnowledgeBaseManager: the URL-suggestion modal is open
    isFetchingUrls,        \* KnowledgeBaseManager: a search for URLs is running
    suggestedUrls  \* KnowledgeBaseManager: the URLs the search returned

svcVars == <<envKey, userKey, ai, currentKey, svc>>

appVars == <<session, urlGroups, activeUrlGroupId, chatMessages, currentSessionId,
             chatSessions, isLoading, isFetchingSuggestions,
             initialQuerySuggestions, isSettingsOpen>>

dbVars == <<dbSessions, dbMessages>>

runVars == <<tasks, dbErrors, now, returnedSends>>

groupVars == <<dbGroups, dbGroupUrls, isModalOpen, isFetchingUrls, suggestedUrls>>

moreVars == <<calls, suggestionCalls, groupVars>>

vars == <<svcVars, appVars, dbVars, runVars, moreVars>>

(***************************************************************************)
(* Bounds of the model.                                                    *)
(***************************************************************************)
\* longest URL (in characters) given to the prompt composer
MaxUrlLen == 1
\* longest URL list given to the prompt composer
MaxPromptUrls == 3
\* longest URL list given to identifyRelevantUrls beyond the short-circuit size
MaxExtraUrls == 1
\* handler invocations (handleSendMessage, handleConfirmSources) in one run
MaxTasks == 3
\* fragments one stream yields at most
MaxChunks == 1
\* requests to the remote tables that fail in one run
MaxDbErrors == 1
\* handleSendMessage calls that return at the guard, counted up to this
MaxReturnedSends == 1
\* invocations of the other handlers (URL groups, feedback, loadSession) in one run
MaxCalls == 3
\* URL groups ever created in the remote table
MaxGroups == 3
\* getInitialSuggestions calls that await the backend at one time
MaxSuggestionCalls == 1
\* calls of handleSendMessage and handleConfirmSources in a run that looks at
\* the history
MaxHistoryTurnCalls == 2

(***************************************************************************)
(* Sequence helpers.                                                       *)
(***************************************************************************)
\* all sequences over S of length at most n
SeqsUpTo(S, n) == UNION {[1..k -> S] : k \in 0..n}

\* xs without its first n elements (String.prototype.slice(n), Array.slice(n))
DropFirst(xs, n) == SubSeq(xs, n + 1, Len(xs))

\* the first n elements of xs (slice(0, n))
TakeFirst(xs, n) == SubSeq(xs, 1, IF n < Len(xs) THEN n ELSE Len(xs))

(***************************************************************************)
(* Character strings: Array.prototype.join('\n') and template literals.    *)
(***************************************************************************)
NL == "\n"

\* urls.join('\n') on character strings
RECURSIVE JoinLines(_)
JoinLines(urls) ==
    IF Len(urls) = 0 THEN <<>>
    ELSE IF Len(urls) = 1 THEN urls[1]
    ELSE urls[1] \o <<NL>> \o JoinLines(Tail(urls))

\* the literal text between ${prompt} and ${urlList} in the answer prompt
ContextHeader == <<NL, NL, "[CONTEXT] Relevant URLs:", NL>>

\* a list handed on with its repeated elements
KeepRepeats(urls) == urls

\* xs with every repeated element dropped, first occurrences kept in order
\* (Array.from(new Set(xs)))
RECURSIVE Dedup(_)
Dedup(urls) ==
    IF Len(urls) = 0 THEN <<>>
    ELSE LET rest == Dedup(SubSeq(urls, 1, Len(urls) - 1))
             last == urls[Len(urls)]
         IN  IF \E i \in 1..Len(rest) : rest[i] = last THEN rest
             ELSE Append(rest, last)

\* a composer that lists each URL once
StreamFullPromptDedup(prompt, urls) ==
    IF Len(urls) > 0
    THEN prompt \o ContextHeader \o JoinLines(Dedup(urls))
    ELSE prompt

\* generateContentStreamWithUrlContext: let fullPrompt = prompt; if (urls.length > 0) ...
StreamFullPrompt(prompt, urls) ==
    IF Len(urls) > 0
    THEN prompt \o ContextHeader \o JoinLines(urls)
    ELSE prompt

\* generateContentWithUrlContext: the same composition, written a second time
FullPrompt(prompt, urls) ==
    IF Len(urls) > 0
    THEN LET urlList == JoinLines(urls)
         IN  prompt \o ContextHeader \o urlList
    ELSE prompt

(***************************************************************************)
(* JSON text.  The backend's response text is a sequence of lexical        *)
(* tokens [t, v]: t = "fence" (three backticks), "ws" (a run of white      *)
(* space), "w" (a run of word characters: a fence's language tag, or a     *)
(* JSON literal), "p" (one of { } [ ] : ,) and "str" (a quoted string, v   *)
(* its contents).  Objects hold scalars and arrays of scalars.             *)
(***************************************************************************)
Fence == [t |-> "fence", v |-> "fence"]
Ws(v) == [t |-> "ws", v |-> v]
W(v) == [t |-> "w", v |-> v]
P(v) == [t |-> "p", v |-> v]
S(v) == [t |-> "str", v |-> v]

JsonLiterals == {"null", "true", "false", "1"}

\* String.prototype.trim()
RECURSIVE TrimLeft(_)
TrimLeft(toks) ==
    IF Len(toks) > 0 /\ toks[1].t = "ws" THEN TrimLeft(Tail(toks)) ELSE toks

RECURSIVE TrimRight(_)
TrimRight(toks) ==
    IF Len(toks) > 0 /\ toks[Len(toks)].t = "ws"
    THEN TrimRight(SubSeq(toks, 1, Len(toks) - 1))
    ELSE toks

Trim(toks) == TrimRight(TrimLeft(toks))

\* the first index >= i of toks whose token is not of a class in ts (Len+1 if none)
RECURSIVE SkipClass(_, _, _)
SkipClass(toks, i, ts) ==
    IF i <= Len(toks) /\ toks[i].t \in ts THEN SkipClass(toks, i + 1, ts) ELSE i

\* the last index <= i of toks whose token is not white space (0 if none)
RECURSIVE LastNonWs(_, _)
LastNonWs(toks, i) ==
    IF i >= 1 /\ toks[i].t = "ws" THEN LastNonWs(toks, i - 1) ELSE i

\* cleanText.match(fenceRegex): whether it matches, and group 2.  The regex is
\* an opening fence, an optional run of word characters, white space, a lazy
\* group 2, white space and a closing fence at the end of the text (flag s).
\* The greedy word and space runs take the language tag and the white space
\* after the opening fence; the lazy group stops at the white space that runs up
\* to the closing fence, which $ pins to the end of the text.
FenceMatch(clean) ==
    IF Len(clean) >= 2 /\ clean[1] = Fence /\ clean[Len(clean)] = Fence
    THEN LET from == SkipClass(clean, SkipClass(clean, 2, {"w"}), {"ws"})
             to == LastNonWs(clean, Len(clean) - 1)
         IN  [matched |-> TRUE,
              group2 |-> IF from <= to THEN SubSeq(clean, from, to) ELSE <<>>]
    ELSE [matched |-> FALSE, group2 |-> <<>>]

\* let cleanText = text.trim(); if (match && match[2]) cleanText = match[2].trim()
StripFence(text) ==
    LET cleanText == Trim(text)
        match == FenceMatch(cleanText)
    IN  IF match.matched /\ Len(match.group2) > 0
        THEN Trim(match.group2)
        ELSE cleanText

\* ---- JSON.parse on tokens ------------------------------------------------
IsScalarTok(tok) == tok.t = "str" \/ (tok.t = "w" /\ tok.v \in JsonLiterals)

ScalarOf(tok) == [kind |-> IF tok.t = "str" THEN "str" ELSE "lit", s |-> tok.v]

NoArray == [ok |-> FALSE, items |-> <<>>, next |-> 0]

\* the elements of an array from s[i] on; first: s[i] directly follows "["
RECURSIVE ArrayRest(_, _, _)
ArrayRest(s, i, first) ==
    IF i > Len(s) THEN NoArray
    ELSE IF first /\ s[i] = P("]") THEN [ok |-> TRUE, items |-> <<>>, next |-> i + 1]
    ELSE IF ~IsScalarTok(s[i]) \/ i + 1 > Len(s) THEN NoArray
    ELSE IF s[i + 1] = P("]")
         THEN [ok |-> TRUE, items |-> <<ScalarOf(s[i])>>, next |-> i + 2]
    ELSE IF s[i + 1] = P(",")
         THEN LET r == ArrayRest(s, i + 2, FALSE)
              IN  [ok |-> r.ok, items |-> <<ScalarOf(s[i])>> \o r.items, next |-> r.next]
    ELSE NoArray

NoValue == [ok |-> FALSE, val |-> [kind |-> "none", s |-> "", items |-> <<>>], next |-> 0]

\* the value (a scalar or an array of scalars) that starts at s[i]
ValueAt(s, i) ==
    IF i > Len(s) THEN NoValue
    ELSE IF s[i] = P("[")
         THEN LET r == ArrayRest(s, i + 1, TRUE)
              IN  IF r.ok
                  THEN [ok |-> TRUE,
                        val |-> [kind |-> "arr", s |-> "", items |-> r.items],
                        next |-> r.next]
                  ELSE NoValue
    ELSE IF IsScalarTok(s[i])
         THEN [ok |-> TRUE,
               val |-> [kind |-> ScalarOf(s[i]).kind, s |-> s[i].v, items |-> <<>>],
               next |-> i + 1]
    ELSE NoValue

NoObject == [ok |-> FALSE, fields |-> <<>>, next |-> 0]

\* the members of an object from s[i] on; first: s[i] directly follows "{"
RECURSIVE ObjectRest(_, _, _)
ObjectRest(s, i, first) ==
    IF i > Len(s) THEN NoObject
    ELSE IF first /\ s[i] = P("}") THEN [ok |-> TRUE, fields |-> <<>>, next |-> i + 1]
    ELSE IF s[i].t # "str" \/ i + 1 > Len(s) \/ s[i + 1] # P(":") THEN NoObject
    ELSE LET v == ValueAt(s, i + 2)
         IN  IF ~v.ok \/ v.next > Len(s) THEN NoObject
             ELSE LET member == [key |-> s[i].v, val |-> v.val]
                  IN  IF s[v.next] = P("}")
                      THEN [ok |-> TRUE, fields |-> <<member>>, next |-> v.next + 1]
                      ELSE IF s[v.next] = P(",")
                      THEN LET r == ObjectRest(s, v.next + 1, FALSE)
                           IN  [ok |-> r.ok, fields |-> <<member>> \o r.fields,
                                next |-> r.next]
                      ELSE NoObject

ParseError == [ok |-> FALSE, kind |-> "none", s |-> "", items |-> <<>>, fields |-> <<>>]

\* JSON.parse(text): ok = FALSE when it throws a SyntaxError
ParseJson(text) ==
    LET s == SelectSeq(text, LAMBDA tok : tok.t # "ws")
    IN  IF Len(s) = 0 THEN ParseError
        ELSE IF s[1] = P("{")
             THEN LET r == ObjectRest(s, 2, TRUE)
                  IN  IF r.ok /\ r.next = Len(s) + 1
                      THEN [ok |-> TRUE, kind |-> "obj", s |-> "", items |-> <<>>,
                            fields |-> r.fields]
                      ELSE ParseError
        ELSE LET v == ValueAt(s, 1)
             IN  IF v.ok /\ v.next = Len(s) + 1
                 THEN [ok |-> TRUE, kind |-> v.val.kind, s |-> v.val.s,
                       items |-> v.val.items, fields |-> <<>>]
                 ELSE ParseError

\* items.filter(s => typeof s === 'string'): the strings among parsed elements
StringsOf(items) ==
    LET kept == SelectSeq(items, LAMBDA it : it.kind = "str")
    IN  [i \in 1..Len(kept) |-> kept[i].s]

\* parsed[key] && Array.isArray(parsed[key]): the array under key of a parsed
\* object (a repeated key keeps its last value), as a list of its elements;
\* strings: the elements that are strings
ArrayUnder(parsed, key) ==
    LET hits == {i \in 1..Len(parsed.fields) : parsed.fields[i].key = key}
    IN  IF parsed.kind = "obj" /\ hits # {}
        THEN LET last == CHOOSE i \in hits : \A j \in hits : j <= i
                 val == parsed.fields[last].val
             IN  IF val.kind = "arr"
                 THEN [isArray |-> TRUE,
                       list |-> [i \in 1..Len(val.items) |-> val.items[i].s],
                       strings |-> StringsOf(val.items)]
                 ELSE [isArray |-> FALSE, list |-> <<>>, strings |-> <<>>]
        ELSE [isArray |-> FALSE, list |-> <<>>, strings |-> <<>>]

(***************************************************************************)
(* Errors.  An exception value is [isError, message]; whether a message    *)
(* includes one of the phrases the code looks for is read off a table.     *)
(***************************************************************************)
MissingKeyMessage == "API Key missing. Please add your API Key in Settings."

PhrasesOf(message) ==
    CASE message = "API key not valid. Please pass a valid API key." -> {"API key not valid"}
      [] message = MissingKeyMessage -> {"API Key missing"}
      [] message = "Resource exhausted: quota" -> {"quota"}
      [] message = "API key not valid (quota project)" -> {"API key not valid", "quota"}
      [] OTHER -> {}

\* message.includes(phrase)
Includes(message, phrase) == phrase \in PhrasesOf(message)

Err(message) == [isError |-> TRUE, message |-> message]

\* what the backend SDK may throw: Errors, and one value that is no Error
BackendErrors ==
    {Err("API key not valid. Please pass a valid API key."),
     Err("Resource exhausted: quota"),
     Err("fetch failed"),
     [isError |-> FALSE, message |-> "aborted"]}

\* the values handleGeminiError may be given: what the backend throws, the
\* Error of getAiInstance, an Error that mentions both a key and the quota, and
\* an Error without a message
ErrorValues ==
    BackendErrors
    \cup {Err(MissingKeyMessage), Err("API key not valid (quota project)"), Err("")}

\* handleGeminiError that looks for the quota first
handleGeminiErrorQuotaFirst(error) ==
    IF error.isError
    THEN IF error.message # "" /\ Includes(error.message, "quota")
         THEN "API quota exceeded."
         ELSE IF error.message # ""
                 /\ (Includes(error.message, "API key not valid")
                     \/ Includes(error.message, "API Key missing"))
         THEN "Invalid or Missing API Key. Please check settings."
         ELSE error.message
    ELSE "Unknown AI error."

\* handleGeminiError(error): it always throws; the value is the message of the
\* Error it throws
handleGeminiError(error) ==
    IF error.isError
    THEN IF error.message # ""
            /\ (Includes(error.message, "API key not valid")
                \/ Includes(error.message, "API Key missing"))
         THEN "Invalid or Missing API Key. Please check settings."
         ELSE IF error.message # "" /\ Includes(error.message, "quota")
         THEN "API quota exceeded."
         ELSE error.message
    ELSE "Unknown AI error."

(***************************************************************************)
(* The cached backend handle.                                              *)
(***************************************************************************)
\* getAiInstance(): uKey is localStorage's DOCUMIND_API_KEY, eKey is
\* ENV_API_KEY, h = [ai, currentKey] the module variables before the call
\* getAiInstance that builds its handle once and keeps it whatever the key
getAiInstanceBuiltOnce(uKey, eKey, h) ==
    LET activeKey == IF uKey # "" THEN uKey ELSE eKey
    IN  IF activeKey = ""
        THEN [raised |-> TRUE, error |-> Err(MissingKeyMessage),
              ai |-> h.ai, currentKey |-> h.currentKey, built |-> FALSE]
        ELSE IF h.ai = "null"
        THEN [raised |-> FALSE, error |-> Err(""),
              ai |-> activeKey, currentKey |-> activeKey, built |-> TRUE]
        ELSE [raised |-> FALSE, error |-> Err(""),
              ai |-> h.ai, currentKey |-> h.currentKey, built |-> FALSE]

\* a handle is written as the key it was built from; built tells whether the
\* call executed `new GoogleGenAI`
getAiInstance(uKey, eKey, h) ==
    LET activeKey == IF uKey # "" THEN uKey ELSE eKey
    IN  IF activeKey = ""
        THEN [raised |-> TRUE, error |-> Err(MissingKeyMessage),
              ai |-> h.ai, currentKey |-> h.currentKey, built |-> FALSE]
        ELSE IF h.ai = "null" \/ h.currentKey # activeKey
        THEN [raised |-> FALSE, error |-> Err(""),
              ai |-> activeKey, currentKey |-> activeKey, built |-> TRUE]
        ELSE [raised |-> FALSE, error |-> Err(""),
              ai |-> h.ai, currentKey |-> h.currentKey, built |-> FALSE]

(***************************************************************************)
(* Relevant-URL identification.  resp is what the backend answers if it is *)
(* called: [ok, error, text, grounded, chunks].                            *)
(***************************************************************************)
\* if (urls.length <= 3) return urls
MaxUrlsWithoutSelection == 3

\* the result of a generation-client call: the value returned (or the message
\* of the Error raised), the module variables after it, and the calls it made
Outcome(value, raised, message, h, handleCalls, backendCalls) ==
    [value |-> value, raised |-> raised, message |-> message,
     ai |-> h.ai, currentKey |-> h.currentKey,
     handleCalls |-> handleCalls, backendCalls |-> backendCalls]

\* identifyRelevantUrls without the short-circuit on short lists
identifyRelevantUrlsAlwaysAsks(query, urls, uKey, eKey, h, resp) ==
    LET g == getAiInstance(uKey, eKey, h)
    IN  IF g.raised THEN Outcome(urls, FALSE, "", g, 1, 0)
        ELSE IF ~resp.ok THEN Outcome(urls, FALSE, "", g, 1, 1)
        ELSE LET list == ArrayUnder(ParseJson(resp.text), "relevant_urls")
             IN  Outcome(IF Len(resp.text) > 0 /\ list.isArray THEN list.list ELSE urls,
                         FALSE, "", g, 1, 1)

\* identifyRelevantUrls that lets a failure of the backend call escape
identifyRelevantUrlsRaises(query, urls, uKey, eKey, h, resp) ==
    IF Len(urls) <= MaxUrlsWithoutSelection THEN Outcome(urls, FALSE, "", h, 0, 0)
    ELSE LET g == getAiInstance(uKey, eKey, h)
         IN  IF g.raised THEN Outcome(urls, FALSE, "", g, 1, 0)
             ELSE IF ~resp.ok
             THEN Outcome(<<>>, TRUE, handleGeminiError(resp.error), g, 1, 1)
             ELSE LET list == ArrayUnder(ParseJson(resp.text), "relevant_urls")
                  IN  Outcome(IF Len(resp.text) > 0 /\ list.isArray
                              THEN list.list ELSE urls,
                              FALSE, "", g, 1, 1)

\* identifyRelevantUrls(query, urls)
identifyRelevantUrls(query, urls, uKey, eKey, h, resp) ==
    IF Len(urls) = 0 THEN Outcome(<<>>, FALSE, "", h, 0, 0)
    ELSE IF Len(urls) <= MaxUrlsWithoutSelection THEN Outcome(urls, FALSE, "", h, 0, 0)
    ELSE LET g == getAiInstance(uKey, eKey, h)
         IN  IF g.raised
             THEN Outcome(urls, FALSE, "", g, 1, 0)       \* catch: return urls
             ELSE IF ~resp.ok
             THEN Outcome(urls, FALSE, "", g, 1, 1)       \* catch: return urls
             ELSE IF Len(resp.text) > 0                   \* if (text)
             THEN LET parsed == ParseJson(resp.text)
                      list == ArrayUnder(parsed, "relevant_urls")
                  IN  IF parsed.ok /\ list.isArray
                      THEN Outcome(list.list, FALSE, "", g, 1, 1)
                      ELSE Outcome(urls, FALSE, "", g, 1, 1)
             ELSE Outcome(urls, FALSE, "", g, 1, 1)

(***************************************************************************)
(* Search-based URL discovery.                                             *)
(***************************************************************************)
\* Array.from(new Set(urlsFromChunks)).slice(0, 5)
MaxSearchUrls == 5

\* fetchRelevantUrlsFromSearch that parses the response text as it is
fetchRelevantUrlsFromSearchNoStrip(topic, uKey, eKey, h, resp) ==
    LET g == getAiInstance(uKey, eKey, h)
    IN  IF g.raised THEN Outcome(<<>>, TRUE, handleGeminiError(g.error), g, 1, 0)
        ELSE IF ~resp.ok THEN Outcome(<<>>, TRUE, handleGeminiError(resp.error), g, 1, 1)
        ELSE LET list == ArrayUnder(ParseJson(Trim(resp.text)), "urls")
                 unique == TakeFirst(Dedup(SelectSeq(resp.chunks, LAMBDA u : u # "")),
                                     MaxSearchUrls)
             IN  IF Len(resp.text) > 0 /\ list.isArray
                 THEN Outcome(list.list, FALSE, "", g, 1, 1)
                 ELSE Outcome(IF resp.grounded THEN unique ELSE <<>>, FALSE, "", g, 1, 1)

\* fetchRelevantUrlsFromSearch(topic)
fetchRelevantUrlsFromSearch(topic, uKey, eKey, h, resp) ==
    LET g == getAiInstance(uKey, eKey, h)
    IN  IF g.raised
        THEN Outcome(<<>>, TRUE, handleGeminiError(g.error), g, 1, 0)
        ELSE IF ~resp.ok
        THEN Outcome(<<>>, TRUE, handleGeminiError(resp.error), g, 1, 1)
        ELSE LET parsed == ParseJson(StripFence(resp.text))
                 list == ArrayUnder(parsed, "urls")
                 \* chunks.forEach(chunk => { if (chunk.web?.uri) push })
                 urlsFromChunks == SelectSeq(resp.chunks, LAMBDA u : u # "")
                 unique == TakeFirst(Dedup(urlsFromChunks), MaxSearchUrls)
             IN  IF Len(resp.text) > 0 /\ parsed.ok /\ list.isArray
                 THEN Outcome(list.list, FALSE, "", g, 1, 1)
                 ELSE IF resp.grounded /\ Len(unique) > 0
                 THEN Outcome(unique, FALSE, "", g, 1, 1)
                 ELSE Outcome(<<>>, FALSE, "", g, 1, 1)

(***************************************************************************)
(* The environment of the generation client: credentials, and what the     *)
(* backend may answer.  A response text is written from a JSON value and a *)
(* layout; `about` records the value it was written from.                  *)
(***************************************************************************)
Keys == {"", "key-A", "key-B"}

RECURSIVE JsonItems(_)
JsonItems(list) ==
    IF Len(list) = 0 THEN <<>>
    ELSE IF Len(list) = 1 THEN <<S(list[1])>>
    ELSE <<S(list[1]), P(",")>> \o JsonItems(Tail(list))

JsonArray(list) == <<P("[")>> \o JsonItems(list) \o <<P("]")>>

\* {"key":[...]} on one line, or spread over lines
JsonObject(key, list, spaced) ==
    IF spaced
    THEN <<P("{"), Ws(NL), S(key), P(":"), Ws(" ")>> \o JsonArray(list) \o <<Ws(NL), P("}")>>
    ELSE <<P("{"), S(key), P(":")>> \o JsonArray(list) \o <<P("}")>>

Layouts == {"bare", "padded", "fence", "fence-json", "fence-json-inline", "fence-padded"}

Wrap(layout, body) ==
    CASE layout = "bare" -> body
      [] layout = "padded" -> <<Ws(NL)>> \o body \o <<Ws(" "), Ws(NL)>>
      [] layout = "fence" -> <<Fence, Ws(NL)>> \o body \o <<Ws(NL), Fence>>
      [] layout = "fence-json" -> <<Fence, W("json"), Ws(NL)>> \o body \o <<Ws(NL), Fence>>
      [] layout = "fence-json-inline" -> <<Fence, W("json"), Ws(" ")>> \o body \o <<Fence>>
      [] layout = "fence-padded" ->
            <<Ws(" "), Fence, W("json"), Ws(NL)>> \o body \o <<Ws(NL), Ws(" "), Fence, Ws(NL)>>

\* texts that are no JSON value, or a value without the array asked for
OddTexts(key) ==
    {<<>>,
     <<Ws(" ")>>,
     <<P("{"), S(key), P(":"), P("["), S("u1")>>,
     <<W("Here"), Ws(" "), Fence, W("json"), Ws(NL)>> \o JsonObject(key, <<"u1">>, FALSE)
        \o <<Ws(NL), Fence>>,
     <<Fence, W("json"), Fence>>,
     <<W("null")>>,
     <<S("u1")>>,
     JsonArray(<<"u1">>),
     <<P("{"), P("}")>>,
     <<P("{"), S(key), P(":"), S("u1"), P("}")>>,
     <<P("{"), S(key), P(":"), W("null"), P("}")>>,
     JsonObject("other", <<"u1">>, FALSE)}

NoResponse == [ok |-> TRUE, error |-> Err(""), text |-> <<>>, grounded |-> FALSE,
               chunks |-> <<>>, about |-> [shape |-> "none", list |-> <<>>, layout |-> "bare"]]

Failure(error) == [NoResponse EXCEPT !.ok = FALSE, !.error = error,
                                    !.about = [shape |-> "failure", list |-> <<>>,
                                               layout |-> "bare"]]

\* a response whose text is the object {key: list} in a layout
ObjectResponse(key, list, spaced, layout) ==
    [NoResponse EXCEPT !.text = Wrap(layout, JsonObject(key, list, spaced)),
                       !.about = [shape |-> "object", list |-> list, layout |-> layout]]

OddResponse(text) ==
    [NoResponse EXCEPT !.text = text,
                       !.about = [shape |-> "odd", list |-> <<>>, layout |-> "bare"]]

\* the URLs a response may name: URLs of the input, and one that is not
AnswerUrls == {"u1", "u2", "u9"}

AnswerLists == SeqsUpTo(AnswerUrls, 2)

\* what the backend may answer to identifyRelevantUrls
IdentifyResponses ==
    {Failure(e) : e \in BackendErrors}
    \cup {OddResponse(t) : t \in OddTexts("relevant_urls")}
    \cup {ObjectResponse("relevant_urls", l, sp, lay) :
            l \in AnswerLists, sp \in BOOLEAN, lay \in {"bare", "padded", "fence-json"}}

\* the search-grounding citations of a response: the web URI of each, "" for a
\* citation without one
ChunkLists == {<<>>, <<"g1", "", "g2", "g1">>, <<"", "">>,
               <<"g3", "g1", "g3", "", "g2", "g4", "g1", "g5", "g6", "g2">>}

WithChunks(resp, grounded, chunks) == [resp EXCEPT !.grounded = grounded, !.chunks = chunks]

\* what the backend may answer to fetchRelevantUrlsFromSearch
SearchResponses ==
    {Failure(e) : e \in BackendErrors}
    \cup {WithChunks(r, g, IF g THEN c ELSE <<>>) :
            r \in {OddResponse(t) : t \in OddTexts("urls")}
                  \cup {ObjectResponse("urls", l, sp, lay) :
                          l \in AnswerLists, sp \in BOOLEAN, lay \in Layouts},
            g \in BOOLEAN, c \in ChunkLists}

(***************************************************************************)
(* Initial suggestions: the generation client's call and the text that the *)
(* view model reads the suggestions from.                                  *)
(***************************************************************************)
\* slice(4) of the suggestions kept
SuggestionsShownFrom == 4

\* JSON.stringify({ suggestions: [] })
NoSuggestionsText == JsonObject("suggestions", <<>>, FALSE)

\* JSON.stringify({ suggestions: ["Add some URLs to get topic suggestions."] })
CannedSuggestionsText ==
    JsonObject("suggestions", <<"Add some URLs to get topic suggestions.">>, FALSE)

\* getInitialSuggestions that lets a failure of the backend call escape
getInitialSuggestionsRaises(urls, uKey, eKey, h, resp) ==
    IF Len(urls) = 0 THEN Outcome(CannedSuggestionsText, FALSE, "", h, 0, 0)
    ELSE LET g == getAiInstance(uKey, eKey, h)
         IN  IF g.raised THEN Outcome(<<>>, TRUE, handleGeminiError(g.error), g, 1, 0)
             ELSE IF ~resp.ok THEN Outcome(<<>>, TRUE, handleGeminiError(resp.error), g, 1, 1)
             ELSE Outcome(resp.text, FALSE, "", g, 1, 1)

\* getInitialSuggestions(urls): the value is the text of its result
getInitialSuggestions(urls, uKey, eKey, h, resp) ==
    IF Len(urls) = 0 THEN Outcome(CannedSuggestionsText, FALSE, "", h, 0, 0)
    ELSE LET g == getAiInstance(uKey, eKey, h)
         IN  IF g.raised
             THEN Outcome(NoSuggestionsText, FALSE, "", g, 1, 0)  \* catch: empty list
             ELSE IF ~resp.ok
             THEN Outcome(NoSuggestionsText, FALSE, "", g, 1, 1)  \* catch: empty list
             ELSE Outcome(resp.text, FALSE, "", g, 1, 1)          \* response.text || ""

\* fetchAndSetInitialSuggestions, lines 260-277: the suggestions read from
\* the text of the result
SuggestionsIn(text) ==
    LET parsed == ParseJson(StripFence(text))
        list == ArrayUnder(parsed, "suggestions")
        suggestionsArray == IF Len(text) > 0 /\ parsed.ok /\ list.isArray
                            THEN list.strings ELSE <<>>
    IN  DropFirst(suggestionsArray, SuggestionsShownFrom)

\* {"suggestions":["s1",1,"s2","s3","s4","s5"]}: an array that holds a number
MixedSuggestionsText ==
    <<P("{"), S("suggestions"), P(":"), P("["), S("s1"), P(","), W("1"), P(","),
      S("s2"), P(","), S("s3"), P(","), S("s4"), P(","), S("s5"), P("]"), P("}")>>

\* what the backend may answer to getInitialSuggestions
InitialSuggestionResponses ==
    {Failure(e) : e \in BackendErrors}
    \cup {OddResponse(t) : t \in OddTexts("suggestions")}
    \cup {[NoResponse EXCEPT !.text = MixedSuggestionsText,
                             !.about = [shape |-> "mixed",
                                        list |-> <<"s1", "s2", "s3", "s4", "s5">>,
                                        layout |-> "bare"]]}
    \cup {ObjectResponse("suggestions", l, FALSE, lay) :
            l \in {<<>>, <<"s1">>, <<"s1", "s2", "s3", "s4", "s5">>},
            lay \in {"bare", "fence-json"}}

(***************************************************************************)
(* The chat view model (App).  Identifiers are records [tag, n]: the       *)
(* temporary ids `user-${Date.now()}` and `selection-${Date.now()}`, the   *)
(* ids the remote table assigns, and "none" for the empty string.          *)
(***************************************************************************)
USER == "user"

MODEL == "model"

SYSTEM == "system"

Id(tag, n) == [tag |-> tag, n |-> n]

\* the empty string as a message id: let dbMessageId = ''
NoId == Id("none", 0)

\* messageId.startsWith('selection-')
StartsWithSelection(id) == id.tag = "selection"

\* dbMessageId || messageId
OrElse(a, b) == IF a # NoId THEN a ELSE b

\* message texts are character strings; a literal is one element
AnalyzingText == <<"Analyzing your query and finding relevant documentation...">>

\* `Error: ${e.message}`
ErrorText(message) == <<"Error: ", message>>

IsErrorText(text) == Len(text) > 0 /\ text[1] = "Error: "

\* accumulatedText.slice(0, -n): slice(0, -0) is slice(0, 0), the empty string
SliceOffEnd(text, n) == IF n = 0 THEN <<>> ELSE SubSeq(text, 1, Len(text) - n)

\* query.trim() on the queries of the model
TrimQuery(query) == IF query \in {"", " ", "  "} THEN "" ELSE query

\* a sourceSelection: absent, or {originalQuery, urls}
NoSelection == [has |-> FALSE, originalQuery |-> "", urls |-> <<>>]

Selection(query, urls) == [has |-> TRUE, originalQuery |-> query, urls |-> urls]

\* a ChatMessage (types.ts); urlContext is "none" when undefined or null
Message(id, text, sender, timestamp, loading) ==
    [id |-> id, text |-> text, sender |-> sender, timestamp |-> timestamp,
     isLoading |-> loading, urlContext |-> "none",
     isSourceConfirmationPending |-> FALSE, sourceSelection |-> NoSelection,
     feedback |-> "none"]

\* prev.map(msg => msg.id === from ? { ...msg, id: to } : msg)
Renamed(msgs, from, to) ==
    [i \in 1..Len(msgs) |->
        LET m == msgs[i]
        IN  IF m.id = from
            THEN [m EXCEPT !.id = to]
            ELSE m]

(***************************************************************************)
(* The remote tables.  The metadata column of a chat_messages row is       *)
(* absent, or an object whose keys are each absent or set.                 *)
(***************************************************************************)
NoMetadata == [has |-> FALSE, urlContext |-> "absent",
               isSourceConfirmationPending |-> "absent",
               sourceSelection |-> NoSelection, feedback |-> "absent"]

Row(sessionId, sender, content, createdAt, metadata) ==
    [session_id |-> sessionId, sender |-> sender, content |-> content,
     created_at |-> createdAt, metadata |-> metadata]

\* handleSendMessage: the metadata of the row saved for a source selection
PendingMetadata(query, relevantUrls) ==
    [NoMetadata EXCEPT !.has = TRUE, !.isSourceConfirmationPending = "true",
                       !.sourceSelection = Selection(query, relevantUrls)]

\* an update that keeps the candidates first saved with the row
UpdateMetadataWithoutSelection(finalUrlContext, originalQuery, selectedUrls) ==
    [NoMetadata EXCEPT !.has = TRUE, !.urlContext = finalUrlContext,
                       !.isSourceConfirmationPending = "false"]

\* handleConfirmSources: the metadata written by the update of the row
UpdateMetadata(finalUrlContext, originalQuery, selectedUrls) ==
    [NoMetadata EXCEPT !.has = TRUE, !.urlContext = finalUrlContext,
                       !.isSourceConfirmationPending = "false",
                       !.sourceSelection = Selection(originalQuery, selectedUrls)]

\* handleConfirmSources: the metadata of the row inserted when no row was found
InsertMetadata(finalUrlContext, originalQuery, selectedUrls) ==
    [NoMetadata EXCEPT !.has = TRUE, !.urlContext = finalUrlContext,
                       !.sourceSelection = Selection(originalQuery, selectedUrls)]

\* .eq('session_id', s).contains('metadata', {sourceSelection: {originalQuery: q}})
MatchingRows(rows, sessionId, originalQuery) ==
    {r \in 1..Len(rows) :
        /\ rows[r].session_id = sessionId
        /\ rows[r].metadata.has
        /\ rows[r].metadata.sourceSelection.has
        /\ rows[r].metadata.sourceSelection.originalQuery = originalQuery}

\* .order('created_at', { ascending: false }).limit(1).single(): the newest of
\* the matching rows (the later row among rows of one instant), or none
NewestMatchingRow(rows, sessionId, originalQuery) ==
    LET found == MatchingRows(rows, sessionId, originalQuery)
    IN  IF found = {} THEN NoId
        ELSE Id("db", CHOOSE r \in found :
                        \A o \in found :
                            \/ rows[o].created_at < rows[r].created_at
                            \/ rows[o].created_at = rows[r].created_at /\ o <= r)

(***************************************************************************)
(* The environment of the chat: the URL groups of the signed-in user, the  *)
(* queries typed, and what the backend may answer.                         *)
(***************************************************************************)
\* one group, whose URL list is longer than the short-circuit size
DefaultGroups == <<[id |-> "g1", urls |-> <<"u1", "u2", "u3", "u4">>]>>

\* the queries a user sends; the last one is blank
ChatQueries == {"q1", "q2", " "}

\* the keys a user of the chat saves in the settings: none, or one
ChatKeys == {"", "key-A"}

\* what the backend may answer to the identification call of a turn
ChatIdentifyResponses ==
    {Failure(Err("fetch failed")),
     ObjectResponse("relevant_urls", <<"u1", "u2">>, FALSE, "bare")}

\* what the streaming call may throw
StreamErrors == {Err("Resource exhausted: quota")}

\* what a stream may yield: textChunk, and urlContextMetadata ("none" when the
\* fragment carries none)
StreamYields == {[textChunk |-> <<"a">>, urlContextMetadata |-> "m1"],
                 [textChunk |-> <<>>, urlContextMetadata |-> "none"]}

\* what the backend may answer to getInitialSuggestions
SuggestionResponses ==
    {Failure(Err("fetch failed")),
     ObjectResponse("suggestions", <<"s1", "s2", "s3", "s4", "s5">>, FALSE, "fence-json")}

\* SourceSelectionUI: the URL sets a user may confirm for the candidates shown:
\* the candidates, or the candidates with the first removed and one URL added
SelectedChoices(initialUrls) ==
    {s \in {initialUrls, Append(DropFirst(initialUrls, 1), "u9")} : Len(s) > 0}

\* process.env.API_KEY || localStorage.getItem('DOCUMIND_API_KEY')
hasKey == envKey # "" \/ userKey # ""

\* const activeGroup = urlGroups.find(...); activeGroup ? activeGroup.urls : []
currentUrlsForChat ==
    LET found == {i \in 1..Len(urlGroups) : urlGroups[i].id = activeUrlGroupId}
    IN  IF found = {} THEN <<>>
        ELSE urlGroups[CHOOSE i \in found : \A j \in found : i <= j].urls

(***************************************************************************)
(* Handler invocations.  A task is one call of handleSendMessage or of     *)
(* handleConfirmSources: pc is the await it is suspended at, the other     *)
(* fields are its parameters and locals.  Two fields are history: clicked, *)
(* the position in the list of the message the call was made on, and       *)
(* backendFailed, whether the turn's identification call failed.           *)
(***************************************************************************)
FreeTask ==
    [kind |-> "none", pc |-> "free", query |-> "", urls |-> <<>>,
     activeSessionId |-> 0, tempUserMsgId |-> NoId, selectionPlaceholderId |-> NoId,
     relevantUrls |-> <<>>, messageId |-> NoId, dbMessageId |-> NoId,
     accumulatedText |-> <<>>, finalUrlContext |-> "none", yielded |-> 0,
     createdAt |-> 0, uKey |-> "", h |-> [ai |-> "null", currentKey |-> "null"],
     clicked |-> 0, backendFailed |-> FALSE]

\* a call that has returned
DoneTask == [FreeTask EXCEPT !.kind = "done", !.pc = "done"]

\* whether a request to the remote tables succeeds: { data, error }
DbOutcomes == IF dbErrors < MaxDbErrors THEN BOOLEAN ELSE {TRUE}

AfterDb(ok) == IF ok THEN dbErrors ELSE dbErrors + 1

HasFreeTask == \E t \in 1..MaxTasks : tasks[t].pc = "free"

NextTask == CHOOSE t \in 1..MaxTasks :
                /\ tasks[t].pc = "free"
                /\ \A u \in 1..(t - 1) : tasks[u].pc # "free"

\* a handler invocation other than a chat turn: its position and the values
\* it captured when it was called
FreeCall ==
    [kind |-> "free", pc |-> "done", groupId |-> "", url |-> "", urlGroups |-> <<>>,
     activeUrlGroupId |-> "", messageId |-> NoId, feedback |-> "none",
     currentMeta |-> NoMetadata, sessionId |-> 0]

\* the state of App once the user is signed in, the groups are loaded and no
\* earlier conversation exists: the welcome message alone
AppInitial(fetching) ==
    /\ session = TRUE
    /\ urlGroups = DefaultGroups
    /\ activeUrlGroupId = "g1"
    /\ chatMessages = <<Message(Id("system-welcome", 0), <<"Welcome">>, SYSTEM, 0, FALSE)>>
    /\ currentSessionId = 0
    /\ chatSessions = <<>>
    /\ isLoading = FALSE
    /\ isFetchingSuggestions = fetching
    /\ initialQuerySuggestions = <<>>
    /\ isSettingsOpen = FALSE
    /\ dbSessions = 0
    /\ dbMessages = <<>>
    /\ tasks = [t \in 1..MaxTasks |-> FreeTask]
    /\ dbErrors = 0
    /\ now = 1
    /\ returnedSends = 0
    /\ calls = [c \in 1..MaxCalls |-> FreeCall]
    /\ suggestionCalls = IF fetching THEN <<DefaultGroups[1].urls>> ELSE <<>>
    /\ dbGroups = [n \in 1..MaxGroups |-> IF n = 1 THEN "row" ELSE "unused"]
    /\ dbGroupUrls = {[group_id |-> "g1", url |-> DefaultGroups[1].urls[i]] :
                          i \in 1..Len(DefaultGroups[1].urls)}
    /\ isModalOpen = FALSE
    /\ isFetchingUrls = FALSE
    /\ suggestedUrls = <<>>

(***************************************************************************)
(* SpecService: the generation client's operations applied to inputs drawn *)
(* from bounded sets.  One call is observed at a time; the cached handle   *)
(* and the stored key persist from call to call.                           *)
(***************************************************************************)
Urls == {"u1", "u2", "u3"}

Queries == {"q1", "q2"}

Chars == {"a", NL}

PromptTexts == {<<>>, <<"q">>, <<"q", NL>>}

Idle == [op |-> "idle"]

Handle == [ai |-> ai, currentKey |-> currentKey]

SvcInit ==
    /\ envKey \in {"", "key-E"}
    /\ userKey \in {"", "key-A"}
    /\ ai = "null"
    /\ currentKey = "null"
    /\ svc = Idle
    /\ AppInitial(FALSE)

\* SettingsModal.handleSave: localStorage.setItem('DOCUMIND_API_KEY', apiKey.trim())
handleSave(key) ==
    /\ svc = Idle
    /\ userKey' = key
    /\ isSettingsOpen' = FALSE
    /\ UNCHANGED <<moreVars, envKey, ai, currentKey, svc, session, urlGroups, activeUrlGroupId,
                   chatMessages, currentSessionId, chatSessions, isLoading,
                   isFetchingSuggestions, initialQuerySuggestions, dbVars, runVars>>

SvcIdentifyRelevantUrls ==
    /\ svc = Idle
    /\ \E query \in Queries,
          urls \in SeqsUpTo(Urls, MaxUrlsWithoutSelection + MaxExtraUrls),
          resp \in IdentifyResponses :
          LET out == identifyRelevantUrls(query, urls, userKey, envKey, Handle, resp)
          IN  /\ svc' = [op |-> "identifyRelevantUrls", query |-> query, urls |-> urls,
                         resp |-> resp, before |-> Handle, out |-> out]
              /\ ai' = out.ai
              /\ currentKey' = out.currentKey
    /\ UNCHANGED <<moreVars, envKey, userKey, appVars, dbVars, runVars>>

SvcFetchRelevantUrlsFromSearch ==
    /\ svc = Idle
    /\ \E topic \in Queries, resp \in SearchResponses :
          LET out == fetchRelevantUrlsFromSearch(topic, userKey, envKey, Handle, resp)
          IN  /\ svc' = [op |-> "fetchRelevantUrlsFromSearch", query |-> topic,
                         urls |-> <<>>, resp |-> resp, before |-> Handle, out |-> out]
              /\ ai' = out.ai
              /\ currentKey' = out.currentKey
    /\ UNCHANGED <<moreVars, envKey, userKey, appVars, dbVars, runVars>>

\* both answer operations compose their prompt from the same query and URLs
SvcComposePrompts ==
    /\ svc = Idle
    /\ \E prompt \in PromptTexts,
          urls \in SeqsUpTo(SeqsUpTo(Chars, MaxUrlLen), MaxPromptUrls) :
          svc' = [op |-> "composePrompt", query |-> prompt, urls |-> urls,
                  resp |-> NoResponse, before |-> Handle,
                  out |-> [fullPrompt |-> FullPrompt(prompt, urls),
                           streamFullPrompt |-> StreamFullPrompt(prompt, urls)]]
    /\ UNCHANGED <<moreVars, envKey, userKey, ai, currentKey, appVars, dbVars, runVars>>

\* handleGeminiError applied to a value caught
SvcHandleGeminiError ==
    /\ svc = Idle
    /\ \E error \in ErrorValues :
          svc' = [op |-> "handleGeminiError", query |-> "", urls |-> <<>>,
                  resp |-> Failure(error), before |-> Handle,
                  out |-> Outcome(<<>>, TRUE, handleGeminiError(error), Handle, 0, 0)]
    /\ UNCHANGED <<moreVars, envKey, userKey, ai, currentKey, appVars, dbVars, runVars>>

SvcGetInitialSuggestions ==
    /\ svc = Idle
    /\ \E urls \in SeqsUpTo(Urls, 1), resp \in InitialSuggestionResponses :
          LET out == getInitialSuggestions(urls, userKey, envKey, Handle, resp)
          IN  /\ svc' = [op |-> "getInitialSuggestions", query |-> "", urls |-> urls,
                         resp |-> resp, before |-> Handle, out |-> out]
              /\ ai' = out.ai
              /\ currentKey' = out.currentKey
    /\ UNCHANGED <<moreVars, envKey, userKey, appVars, dbVars, runVars>>

\* fetchAndSetInitialSuggestions(currentUrls) up to its await (lines 250-259);
\* getInitialSuggestions obtains its handle before it awaits the backend
SvcFetchSuggestions ==
    /\ svc = Idle
    /\ \E currentUrls \in SeqsUpTo(Urls, 1) :
          IF Len(currentUrls) = 0
          THEN /\ initialQuerySuggestions' = <<>>
               /\ svc' = [op |-> "fetchAndSetInitialSuggestions", query |-> "",
                          urls |-> currentUrls, resp |-> NoResponse, before |-> Handle,
                          out |-> Outcome(<<>>, FALSE, "", Handle, 0, 0)]
               /\ UNCHANGED <<ai, currentKey, isFetchingSuggestions>>
          ELSE LET g == getAiInstance(userKey, envKey, Handle)
               IN  /\ isFetchingSuggestions' = TRUE
                   /\ initialQuerySuggestions' = <<>>
                   /\ ai' = g.ai
                   /\ currentKey' = g.currentKey
                   /\ svc' = [op |-> "awaitInitialSuggestions", query |-> "",
                              urls |-> currentUrls, resp |-> NoResponse,
                              before |-> Handle,
                              out |-> Outcome(<<>>, FALSE, "", g, 1, 0)]
    /\ UNCHANGED <<moreVars, envKey, userKey, session, urlGroups, activeUrlGroupId, chatMessages,
                   currentSessionId, chatSessions, isLoading, isSettingsOpen, dbVars,
                   runVars>>

\* getInitialSuggestions has settled (lines 259-282)
SvcSuggestionsSettled ==
    /\ svc.op = "awaitInitialSuggestions"
    /\ \E resp \in InitialSuggestionResponses :
          LET out == getInitialSuggestions(svc.urls, userKey, envKey, svc.before, resp)
          IN  /\ initialQuerySuggestions' =
                    IF out.raised THEN initialQuerySuggestions
                    ELSE SuggestionsIn(out.value)
              /\ svc' = [svc EXCEPT !.op = "fetchAndSetInitialSuggestions",
                                    !.resp = resp, !.out = out]
    /\ isFetchingSuggestions' = FALSE
    /\ UNCHANGED <<moreVars, envKey, userKey, ai, currentKey, session, urlGroups,
                   activeUrlGroupId, chatMessages, currentSessionId, chatSessions,
                   isLoading, isSettingsOpen, dbVars, runVars>>

SvcReturn ==
    /\ svc # Idle
    /\ svc.op # "awaitInitialSuggestions"
    /\ svc' = Idle
    /\ UNCHANGED <<moreVars, envKey, userKey, ai, currentKey, appVars, dbVars, runVars>>

SvcNext ==
    \/ \E key \in ChatKeys : handleSave(key)
    \/ SvcIdentifyRelevantUrls
    \/ SvcFetchRelevantUrlsFromSearch
    \/ SvcComposePrompts
    \/ SvcHandleGeminiError
    \/ SvcGetInitialSuggestions
    \/ SvcFetchSuggestions
    \/ SvcSuggestionsSettled
    \/ SvcReturn

SpecService == SvcInit /\ [][SvcNext]_vars


(***************************************************************************)
(* handleSendMessage: step 1 of a turn.                                    *)
(***************************************************************************)
\* a guard that does not look at isFetchingSuggestions
SendBlockedWhileLoadingOnly(query) == TrimQuery(query) = "" \/ isLoading

\* if (!query.trim() || isLoading || isFetchingSuggestions) return
SendBlocked(query) == TrimQuery(query) = "" \/ isLoading \/ isFetchingSuggestions

\* lines 475-489: the user message is appended and its insert is issued
SendUserMessage(t, tk, sessionId) ==
    /\ chatMessages' = Append(chatMessages,
                              Message(Id("user", now), <<tk.query>>, USER, now, FALSE))
    /\ tasks' = [tasks EXCEPT ![t] = [tk EXCEPT !.pc = "saveUser",
                                                !.activeSessionId = sessionId,
                                                !.tempUserMsgId = Id("user", now),
                                                !.createdAt = now]]
    /\ now' = now + 1

\* a call without a key that opens the settings and starts the turn all the same
SendWithoutKeyStartsTurn ==
    /\ isSettingsOpen' = TRUE
    /\ isLoading' = TRUE

\* if (!hasKey) { setIsSettingsOpen(true); alert(...); return; }
SendWithoutKey ==
    /\ isSettingsOpen' = TRUE
    /\ UNCHANGED isLoading

handleSendMessage(query) ==
    IF SendBlocked(query)
    THEN /\ returnedSends < MaxReturnedSends
         /\ returnedSends' = returnedSends + 1
         /\ UNCHANGED <<moreVars, svcVars, appVars, dbVars, tasks, dbErrors, now>>
    ELSE IF ~session
    THEN UNCHANGED vars
    ELSE IF ~hasKey
    THEN /\ SendWithoutKey
         /\ UNCHANGED <<moreVars, svcVars, session, urlGroups, activeUrlGroupId, chatMessages,
                        currentSessionId, chatSessions,
                        isFetchingSuggestions, initialQuerySuggestions,
                        dbVars, runVars>>
    ELSE /\ HasFreeTask
         /\ isLoading' = TRUE
         /\ initialQuerySuggestions' = <<>>
         /\ LET t == NextTask
                tk == [FreeTask EXCEPT !.kind = "send", !.query = query,
                                       !.urls = currentUrlsForChat]
            IN  IF currentSessionId = 0
                THEN /\ tasks' = [tasks EXCEPT ![t] = [tk EXCEPT !.pc = "createSession"]]
                     /\ UNCHANGED <<chatMessages, now>>
                ELSE SendUserMessage(t, tk, currentSessionId)
         /\ UNCHANGED <<moreVars, svcVars, session, urlGroups, activeUrlGroupId,
                        currentSessionId, chatSessions, isFetchingSuggestions,
                        isSettingsOpen, dbVars, dbErrors, returnedSends>>

\* the insert into chat_sessions has answered (lines 462-471)
SendSessionCreated(t) ==
    /\ tasks[t].kind = "send" /\ tasks[t].pc = "createSession"
    /\ \E ok \in DbOutcomes :
          /\ dbErrors' = AfterDb(ok)
          /\ IF ok
             THEN /\ dbSessions' = dbSessions + 1
                  /\ currentSessionId' = dbSessions + 1
                  /\ chatSessions' = <<dbSessions + 1>> \o chatSessions
                  /\ SendUserMessage(t, tasks[t], dbSessions + 1)
                  /\ UNCHANGED isLoading
             ELSE /\ isLoading' = FALSE
                  /\ tasks' = [tasks EXCEPT ![t] = DoneTask]
                  /\ UNCHANGED <<dbSessions, currentSessionId, chatSessions,
                                 chatMessages, now>>
    /\ UNCHANGED <<moreVars, svcVars, session, urlGroups, activeUrlGroupId,
                   isFetchingSuggestions, initialQuerySuggestions, isSettingsOpen,
                   dbMessages, returnedSends>>

\* lines 511-523: the placeholder becomes the source selection
WithSourceSelection(msgs, selectionPlaceholderId, query, relevantUrls) ==
    [i \in 1..Len(msgs) |->
        LET m == msgs[i]
        IN  IF m.id = selectionPlaceholderId
            THEN [m EXCEPT !.isLoading = FALSE,
                          !.isSourceConfirmationPending = TRUE,
                          !.sourceSelection = Selection(query, relevantUrls)]
            ELSE m]

\* lines 543-547: the catch of handleSendMessage
WithSendError(msgs, selectionPlaceholderId, message) ==
    [i \in 1..Len(msgs) |->
        LET m == msgs[i]
        IN  IF m.id = selectionPlaceholderId
            THEN [m EXCEPT !.text = ErrorText(message), !.isLoading = FALSE]
            ELSE m]

\* lines 508-550 once identifyRelevantUrls has settled with `out`, on the
\* message list msgs
SendAfterIdentify(t, tk, msgs, out, resp) ==
    IF out.raised
    THEN /\ chatMessages' = WithSendError(msgs, tk.selectionPlaceholderId, out.message)
         /\ isLoading' = FALSE
         /\ tasks' = [tasks EXCEPT ![t] = DoneTask]
    ELSE /\ chatMessages' = WithSourceSelection(msgs, tk.selectionPlaceholderId,
                                                tk.query, out.value)
         /\ tasks' = [tasks EXCEPT ![t] =
                        [tk EXCEPT !.pc = "savePlaceholder",
                                   !.relevantUrls = out.value,
                                   !.createdAt = now,
                                   !.backendFailed = out.backendCalls > 0 /\ ~resp.ok]]
         /\ UNCHANGED isLoading

\* the insert of the user message has answered (lines 491-508): the placeholder
\* is appended and identifyRelevantUrls is called; the call settles at once
\* unless it reaches the backend
SendUserMsgSaved(t) ==
    /\ tasks[t].kind = "send" /\ tasks[t].pc = "saveUser"
    /\ \E ok \in DbOutcomes :
          LET tk == tasks[t]
              rows == IF ok
                      THEN Append(dbMessages, Row(tk.activeSessionId, USER, <<tk.query>>,
                                                  tk.createdAt, NoMetadata))
                      ELSE dbMessages
              saved == IF ok
                       THEN Renamed(chatMessages, tk.tempUserMsgId, Id("db", Len(rows)))
                       ELSE chatMessages
              selectionPlaceholderId == Id("selection", now)
              msgs == Append(saved, Message(selectionPlaceholderId, AnalyzingText,
                                            MODEL, now, TRUE))
              called == [tk EXCEPT !.selectionPlaceholderId = selectionPlaceholderId,
                                   !.uKey = userKey, !.h = Handle]
              out == identifyRelevantUrls(tk.query, tk.urls, userKey, envKey, Handle,
                                          NoResponse)
          IN  /\ dbErrors' = AfterDb(ok)
              /\ dbMessages' = rows
              /\ ai' = out.ai
              /\ currentKey' = out.currentKey
              /\ IF out.backendCalls = 0
                 THEN SendAfterIdentify(t, [called EXCEPT !.uKey = "", !.h = FreeTask.h],
                                        msgs, out, NoResponse)
                 ELSE /\ chatMessages' = msgs
                      /\ tasks' = [tasks EXCEPT ![t] = [called EXCEPT !.pc = "identify"]]
                      /\ UNCHANGED isLoading
    /\ now' = now + 1
    /\ UNCHANGED <<moreVars, envKey, userKey, svc, session, urlGroups, activeUrlGroupId,
                   currentSessionId, chatSessions, isFetchingSuggestions,
                   initialQuerySuggestions, isSettingsOpen, dbSessions, returnedSends>>

\* the backend has answered the identification call
SendUrlsIdentified(t) ==
    /\ tasks[t].kind = "send" /\ tasks[t].pc = "identify"
    /\ \E resp \in ChatIdentifyResponses :
          LET tk == tasks[t]
              out == identifyRelevantUrls(tk.query, tk.urls, tk.uKey, envKey, tk.h, resp)
          IN  SendAfterIdentify(t, [tk EXCEPT !.uKey = "", !.h = FreeTask.h],
                                chatMessages, out, resp)
    /\ now' = now + 1
    /\ UNCHANGED <<moreVars, svcVars, session, urlGroups, activeUrlGroupId, currentSessionId,
                   chatSessions, isFetchingSuggestions, initialQuerySuggestions,
                   isSettingsOpen, dbVars, dbErrors, returnedSends>>

\* the insert of the source-selection row has answered (lines 537-550)
SendPlaceholderSaved(t) ==
    /\ tasks[t].kind = "send" /\ tasks[t].pc = "savePlaceholder"
    /\ \E ok \in DbOutcomes :
          LET tk == tasks[t]
              rows == Append(dbMessages,
                             Row(tk.activeSessionId, MODEL, <<>>, tk.createdAt,
                                 PendingMetadata(tk.query, tk.relevantUrls)))
          IN  /\ dbErrors' = AfterDb(ok)
              /\ IF ok
                 THEN /\ dbMessages' = rows
                      /\ chatMessages' = Renamed(chatMessages, tk.selectionPlaceholderId,
                                                 Id("db", Len(rows)))
                 ELSE UNCHANGED <<dbMessages, chatMessages>>
    /\ isLoading' = FALSE
    /\ tasks' = [tasks EXCEPT ![t] = DoneTask]
    /\ UNCHANGED <<moreVars, svcVars, session, urlGroups, activeUrlGroupId, currentSessionId,
                   chatSessions, isFetchingSuggestions, initialQuerySuggestions,
                   isSettingsOpen, dbSessions, now, returnedSends>>

(***************************************************************************)
(* handleConfirmSources: step 2 of a turn, and "regenerate".               *)
(***************************************************************************)
\* MessageItem: the message shows the source selection, which confirms a
\* non-empty URL set, or the action bar, whose "regenerate" passes the stored
\* selection
ConfirmChoices(m) ==
    (IF m.isSourceConfirmationPending /\ m.sourceSelection.has
     THEN SelectedChoices(m.sourceSelection.urls) ELSE {})
    \cup
    (IF m.sender = MODEL /\ ~m.isLoading /\ Len(m.text) > 0 /\ m.sourceSelection.has
     THEN {m.sourceSelection.urls} ELSE {})

\* lines 660-662: the catch of handleConfirmSources
WithStreamError(msgs, message) ==
    [i \in 1..Len(msgs) |->
        LET m == msgs[i]
        IN  IF m.isLoading
            THEN [m EXCEPT !.text = ErrorText(message), !.isLoading = FALSE]
            ELSE m]

\* lines 576-587
WithAnswerStarted(msgs, messageId, dbMessageId, originalQuery) ==
    [i \in 1..Len(msgs) |->
        LET m == msgs[i]
        IN  IF \/ m.id = messageId
               \/ /\ m.sourceSelection.has
                  /\ m.sourceSelection.originalQuery = originalQuery
                  /\ m.isSourceConfirmationPending
            THEN [m EXCEPT !.id = OrElse(dbMessageId, m.id),
                          !.isSourceConfirmationPending = FALSE,
                          !.isLoading = TRUE,
                          !.text = <<>>]
            ELSE m]

\* lines 602-612
WithChunk(msgs, messageId, dbMessageId, accumulatedText, chunk) ==
    [i \in 1..Len(msgs) |->
        LET m == msgs[i]
        IN  IF \/ m.id = OrElse(dbMessageId, messageId)
               \/ /\ m.isLoading
                  /\ m.sender = MODEL
                  /\ m.text = SliceOffEnd(accumulatedText, Len(chunk.textChunk))
            THEN [m EXCEPT !.text = accumulatedText,
                          !.isLoading = TRUE,
                          !.urlContext = IF chunk.urlContextMetadata # "none"
                                         THEN chunk.urlContextMetadata
                                         ELSE m.urlContext]
            ELSE m]

\* lines 615-626
WithAnswer(msgs, messageId, dbMessageId, accumulatedText, finalUrlContext) ==
    [i \in 1..Len(msgs) |->
        LET m == msgs[i]
        IN  IF \/ m.id = OrElse(dbMessageId, messageId)
               \/ m.isLoading /\ m.sender = MODEL
            THEN [m EXCEPT !.text = accumulatedText,
                          !.isLoading = FALSE,
                          !.urlContext = IF finalUrlContext # "none"
                                         THEN finalUrlContext
                                         ELSE m.urlContext,
                          !.isSourceConfirmationPending = FALSE]
            ELSE m]

\* lines 650-655
WithSavedAnswerId(msgs, messageId, accumulatedText, savedId) ==
    [i \in 1..Len(msgs) |->
        LET m == msgs[i]
        IN  IF m.id = messageId \/ (m.text = accumulatedText /\ m.sender = MODEL)
            THEN [m EXCEPT !.id = savedId]
            ELSE m]

\* lines 576-596 for the call tk, whose dbMessageId is settled: the message is
\* marked, and the stream is asked for its first fragment; with no credential
\* the stream throws before it reaches the backend
StartAnswer(t, tk) ==
    LET msgs == WithAnswerStarted(chatMessages, tk.messageId, tk.dbMessageId, tk.query)
        g == getAiInstance(userKey, envKey, Handle)
    IN  /\ ai' = g.ai
        /\ currentKey' = g.currentKey
        /\ IF g.raised
           THEN /\ chatMessages' = WithStreamError(msgs, handleGeminiError(g.error))
                /\ isLoading' = FALSE
                /\ tasks' = [tasks EXCEPT ![t] = DoneTask]
           ELSE /\ chatMessages' = msgs
                /\ isLoading' = TRUE
                /\ tasks' = [tasks EXCEPT ![t] = [tk EXCEPT !.pc = "stream"]]

\* the user confirms selectedUrls on the i-th message, or regenerates it
handleConfirmSources(i, selectedUrls) ==
    /\ i \in 1..Len(chatMessages)
    /\ selectedUrls \in ConfirmChoices(chatMessages[i])
    /\ currentSessionId # 0
    /\ HasFreeTask
    /\ LET m == chatMessages[i]
           t == NextTask
           tk == [FreeTask EXCEPT !.kind = "confirm", !.query = m.sourceSelection.originalQuery,
                                  !.urls = selectedUrls, !.messageId = m.id,
                                  !.dbMessageId = m.id, !.clicked = i,
                                  !.activeSessionId = currentSessionId]
       IN  IF StartsWithSelection(m.id)
           THEN /\ tasks' = [tasks EXCEPT ![t] = [tk EXCEPT !.pc = "lookup"]]
                /\ UNCHANGED <<ai, currentKey, chatMessages, isLoading>>
           ELSE StartAnswer(t, tk)
    /\ UNCHANGED <<moreVars, envKey, userKey, svc, session, urlGroups, activeUrlGroupId,
                   currentSessionId, chatSessions, isFetchingSuggestions,
                   initialQuerySuggestions, isSettingsOpen, dbVars, dbErrors, now,
                   returnedSends>>

\* the lookup of the row of a `selection-` message has answered (lines 569-573)
ConfirmLookupDone(t) ==
    /\ tasks[t].kind = "confirm" /\ tasks[t].pc = "lookup"
    /\ \E ok \in DbOutcomes :
          LET tk == tasks[t]
              dbMessageId == IF ok
                             THEN NewestMatchingRow(dbMessages, tk.activeSessionId, tk.query)
                             ELSE NoId
          IN  /\ dbErrors' = AfterDb(ok)
              /\ StartAnswer(t, [tk EXCEPT !.dbMessageId = dbMessageId])
    /\ UNCHANGED <<moreVars, envKey, userKey, svc, session, urlGroups, activeUrlGroupId,
                   currentSessionId, chatSessions, isFetchingSuggestions,
                   initialQuerySuggestions, isSettingsOpen, dbVars, now,
                   returnedSends>>

\* the stream yields a fragment (lines 596-613)
StreamChunk(t) ==
    /\ tasks[t].kind = "confirm" /\ tasks[t].pc = "stream"
    /\ tasks[t].yielded < MaxChunks
    /\ \E chunk \in StreamYields :
          LET tk == tasks[t]
              accumulatedText == tk.accumulatedText \o chunk.textChunk
          IN  /\ chatMessages' = WithChunk(chatMessages, tk.messageId, tk.dbMessageId,
                                           accumulatedText, chunk)
              /\ tasks' = [tasks EXCEPT ![t] =
                             [tk EXCEPT !.accumulatedText = accumulatedText,
                                        !.finalUrlContext =
                                            IF chunk.urlContextMetadata # "none"
                                            THEN chunk.urlContextMetadata
                                            ELSE tk.finalUrlContext,
                                        !.yielded = tk.yielded + 1]]
    /\ UNCHANGED <<moreVars, svcVars, session, urlGroups, activeUrlGroupId, currentSessionId,
                   chatSessions, isLoading, isFetchingSuggestions,
                   initialQuerySuggestions, isSettingsOpen, dbVars, dbErrors, now,
                   returnedSends>>

\* the stream ends (lines 615-647): the answer is final and its write is issued
StreamEnd(t) ==
    /\ tasks[t].kind = "confirm" /\ tasks[t].pc = "stream"
    /\ LET tk == tasks[t]
       IN  /\ chatMessages' = WithAnswer(chatMessages, tk.messageId, tk.dbMessageId,
                                         tk.accumulatedText, tk.finalUrlContext)
           /\ tasks' = [tasks EXCEPT ![t] = [tk EXCEPT !.pc = "persist", !.createdAt = now]]
    /\ now' = now + 1
    /\ UNCHANGED <<moreVars, svcVars, session, urlGroups, activeUrlGroupId, currentSessionId,
                   chatSessions, isLoading, isFetchingSuggestions,
                   initialQuerySuggestions, isSettingsOpen, dbVars, dbErrors,
                   returnedSends>>

\* a StreamError that forgets the finally block
StreamErrorKeepsLoading(t) ==
    /\ tasks[t].kind = "confirm" /\ tasks[t].pc = "stream"
    /\ \E error \in StreamErrors :
          chatMessages' = WithStreamError(chatMessages, handleGeminiError(error))
    /\ tasks' = [tasks EXCEPT ![t] = DoneTask]
    /\ UNCHANGED <<moreVars, svcVars, session, urlGroups, activeUrlGroupId, currentSessionId,
                   chatSessions, isFetchingSuggestions, initialQuerySuggestions,
                   isSettingsOpen, dbVars, dbErrors, now, returnedSends, isLoading>>

\* the streaming call throws (lines 152-154 of the client, 659-665)
StreamError(t) ==
    /\ tasks[t].kind = "confirm" /\ tasks[t].pc = "stream"
    /\ \E error \in StreamErrors :
          chatMessages' = WithStreamError(chatMessages, handleGeminiError(error))
    /\ isLoading' = FALSE
    /\ tasks' = [tasks EXCEPT ![t] = DoneTask]
    /\ UNCHANGED <<moreVars, svcVars, session, urlGroups, activeUrlGroupId, currentSessionId,
                   chatSessions, isFetchingSuggestions, initialQuerySuggestions,
                   isSettingsOpen, dbVars, dbErrors, now, returnedSends>>

\* the rows after the write of a confirmed answer: the update of the row found,
\* or the insert of a new row
PersistedRows(rows, tk) ==
    IF tk.dbMessageId # NoId
    THEN IF tk.dbMessageId.tag = "db" /\ tk.dbMessageId.n \in 1..Len(rows)
         THEN [rows EXCEPT ![tk.dbMessageId.n] =
                 [@ EXCEPT !.content = tk.accumulatedText,
                           !.metadata = UpdateMetadata(tk.finalUrlContext, tk.query, tk.urls)]]
         ELSE rows
    ELSE Append(rows, Row(tk.activeSessionId, MODEL, tk.accumulatedText, tk.createdAt,
                          InsertMetadata(tk.finalUrlContext, tk.query, tk.urls)))

\* the write of the answer has answered (lines 628-665)
ConfirmPersisted(t) ==
    /\ tasks[t].kind = "confirm" /\ tasks[t].pc = "persist"
    /\ \E ok \in DbOutcomes :
          LET tk == tasks[t]
              rows == PersistedRows(dbMessages, tk)
          IN  /\ dbErrors' = AfterDb(ok)
              /\ IF ok
                 THEN /\ dbMessages' = rows
                      /\ chatMessages' =
                           IF tk.dbMessageId = NoId
                           THEN WithSavedAnswerId(chatMessages, tk.messageId,
                                                  tk.accumulatedText, Id("db", Len(rows)))
                           ELSE chatMessages
                 ELSE UNCHANGED <<dbMessages, chatMessages>>
    /\ isLoading' = FALSE
    /\ tasks' = [tasks EXCEPT ![t] = DoneTask]
    /\ UNCHANGED <<moreVars, svcVars, session, urlGroups, activeUrlGroupId, currentSessionId,
                   chatSessions, isFetchingSuggestions, initialQuerySuggestions,
                   isSettingsOpen, dbSessions, now, returnedSends>>

(***************************************************************************)
(* Query suggestions.                                                      *)
(***************************************************************************)
\* the backend has answered getInitialSuggestions (lines 259-282)
SuggestionsFetched ==
    /\ suggestionCalls # <<>>
    /\ \E resp \in SuggestionResponses :
          \* the call obtained its handle when it was made: ai is the key it holds
          LET out == getInitialSuggestions(Head(suggestionCalls), ai, envKey, Handle, resp)
          IN  initialQuerySuggestions' = SuggestionsIn(out.value)
    /\ isFetchingSuggestions' = FALSE
    /\ suggestionCalls' = Tail(suggestionCalls)
    /\ UNCHANGED <<calls, groupVars, svcVars, session, urlGroups, activeUrlGroupId, chatMessages,
                   currentSessionId, chatSessions, isLoading, isSettingsOpen, dbVars,
                   runVars>>

(***************************************************************************)
(* The chat as a state machine.                                            *)
(***************************************************************************)
\* the app is mounted with a key saved: the effect on currentUrlsForChat (lines
\* 285-293) has called fetchAndSetInitialSuggestions, which awaits the backend
Init ==
    /\ envKey = ""
    /\ userKey = "key-A"
    /\ ai = "key-A"
    /\ currentKey = "key-A"
    /\ svc = Idle
    /\ AppInitial(TRUE)

Next ==
    \/ \E key \in ChatKeys : handleSave(key)
    \/ \E query \in ChatQueries : handleSendMessage(query)
    \/ \E t \in 1..MaxTasks : SendSessionCreated(t)
    \/ \E t \in 1..MaxTasks : SendUserMsgSaved(t)
    \/ \E t \in 1..MaxTasks : SendUrlsIdentified(t)
    \/ \E t \in 1..MaxTasks : SendPlaceholderSaved(t)
    \/ \E i \in 1..Len(chatMessages) :
          \E selectedUrls \in ConfirmChoices(chatMessages[i]) :
             handleConfirmSources(i, selectedUrls)
    \/ \E t \in 1..MaxTasks : ConfirmLookupDone(t)
    \/ \E t \in 1..MaxTasks : StreamChunk(t)
    \/ \E t \in 1..MaxTasks : StreamEnd(t)
    \/ \E t \in 1..MaxTasks : StreamError(t)
    \/ \E t \in 1..MaxTasks : ConfirmPersisted(t)
    \/ SuggestionsFetched

Spec == Init /\ [][Next]_vars

(***************************************************************************)
(* URL groups: the handlers of App and of KnowledgeBaseManager, and the    *)
(* remote tables url_groups and group_urls.  A call is one invocation of   *)
(* an asynchronous handler, suspended at its await.                        *)
(***************************************************************************)
\* const MAX_URLS = 20, passed to KnowledgeBaseManager as maxUrls
MAX_URLS == 20

\* the ids the remote store gives to the groups, in the order of their creation
GroupIds == <<"g1", "g2", "g3", "g4", "g5", "g6">>

\* the number of the group row with that id; 0 when no row ever had it
GroupNumber(id) ==
    IF \E n \in 1..MaxGroups : GroupIds[n] = id
    THEN CHOOSE n \in 1..MaxGroups : GroupIds[n] = id
    ELSE 0

\* the group row with that id exists in url_groups
GroupRowExists(id) == GroupNumber(id) # 0 /\ dbGroups[GroupNumber(id)] = "row"

\* the rows of group_urls that belong to the group
UrlRowsOf(id) == {row \in dbGroupUrls : row.group_id = id}

IdsOf(groups) == {groups[i].id : i \in 1..Len(groups)}

\* urls.includes(url)
InList(urls, url) == \E i \in 1..Len(urls) : urls[i] = url

\* urlGroups.find(g => g.id === active)?.urls, or []
ActiveUrls(groups, active) ==
    LET found == {i \in 1..Len(groups) : groups[i].id = active}
    IN  IF found = {} THEN <<>>
        ELSE groups[CHOOSE i \in found : \A j \in found : i <= j].urls

\* the group list of a user who has filled the first group up to one URL below
\* the cap and keeps a second group
FilledGroups ==
    <<[id |-> "g1",
       urls |-> <<"u1", "u2", "u3", "u4", "u5", "u6", "u7", "u8", "u9", "u10",
                  "u11", "u12", "u13", "u14", "u15", "u16", "u17", "u18", "u19">>],
      [id |-> "g2", urls |-> <<"u1">>]>>

\* what a user types into the add field: nothing, blanks, a text that is no
\* URL, a URL of the group, and new URLs
ManualInputs == {"", " ", "not a url", "u1", "u20", "u21"}

\* isValidUrl: new URL(urlString) does not throw
isValidUrl(urlString) == urlString \notin {"", " ", "not a url"}

\* what the search behind the modal may answer
GroupSearchResponses ==
    {Failure(Err("fetch failed")),
     ObjectResponse("urls", <<"u20", "u21">>, FALSE, "bare")}

\* UrlSuggestionModal: the selection a user confirms: the suggestions as they
\* are, or a selection edited by toggling and by typing URLs
ModalSelections(suggested) ==
    {suggested, <<>>, <<"u21">>, <<"u1", "u21">>, <<"u21", "u22">>}

FreeCalls == {c \in 1..MaxCalls : calls[c].kind = "free"}

\* the k-th free place for an invocation
FreeCallAt(k) ==
    CHOOSE c \in FreeCalls : Cardinality({d \in FreeCalls : d <= c}) = k

DoneCall == [FreeCall EXCEPT !.kind = "done"]

\* the variables of the chat, which the group handlers leave alone
chatFrame ==
    <<envKey, userKey, svc, session, chatMessages, currentSessionId, chatSessions,
      isLoading, isSettingsOpen, dbSessions, dbMessages, tasks, now, returnedSends>>

\* the effect on currentUrlsForChat (App, lines 285-293) with
\* fetchAndSetInitialSuggestions up to its await (lines 249-259), run after a
\* step that assigns urlGroups' and activeUrlGroupId'.  The array is another
\* one when the active group is another one or its list was rebuilt.
SuggestionsEffect ==
    LET after == ActiveUrls(urlGroups', activeUrlGroupId')
    IN  IF after = currentUrlsForChat /\ activeUrlGroupId' = activeUrlGroupId
        THEN UNCHANGED <<isFetchingSuggestions, initialQuerySuggestions, suggestionCalls>>
        ELSE IF Len(after) > 0 /\ hasKey
        THEN /\ Len(suggestionCalls) < MaxSuggestionCalls
             /\ isFetchingSuggestions' = TRUE
             /\ initialQuerySuggestions' = <<>>
             /\ suggestionCalls' = Append(suggestionCalls, after)
        ELSE /\ initialQuerySuggestions' = <<>>
             /\ UNCHANGED <<isFetchingSuggestions, suggestionCalls>>

\* App.handleAddUrl(url) up to its await, for each URL of a list: nothing when
\* no group is active, else one insert per URL, issued in the order of the list
StartAddUrls(urlList) ==
    IF activeUrlGroupId = "" \/ Len(urlList) = 0
    THEN UNCHANGED calls
    ELSE /\ Cardinality(FreeCalls) >= Len(urlList)
         /\ calls' = [c \in 1..MaxCalls |->
                        LET k == Cardinality({d \in FreeCalls : d <= c})
                        IN  IF c \in FreeCalls /\ k <= Len(urlList)
                            THEN [FreeCall EXCEPT !.kind = "addUrl", !.pc = "insert",
                                                  !.groupId = activeUrlGroupId,
                                                  !.url = urlList[k]]
                            ELSE calls[c]]

\* KnowledgeBaseManager.handleAddUrl: the add field (lines 101-125)
ManagerHandleAddUrl(currentUrlInput) ==
    /\ IF \/ activeUrlGroupId = ""
          \/ currentUrlInput \in {"", " "}
          \/ ~isValidUrl(currentUrlInput)
          \/ Len(currentUrlsForChat) >= MAX_URLS
          \/ InList(currentUrlsForChat, currentUrlInput)
       THEN UNCHANGED calls
       ELSE StartAddUrls(<<currentUrlInput>>)
    /\ UNCHANGED <<svcVars, appVars, dbVars, tasks, dbErrors, now, returnedSends,
                   suggestionCalls, groupVars>>

\* prevGroups.map(group => group.id === id ? {...group, urls: [...group.urls, url]} : group)
WithUrlAdded(groups, id, url) ==
    [i \in 1..Len(groups) |->
        IF groups[i].id = id
        THEN [groups[i] EXCEPT !.urls = Append(groups[i].urls, url)]
        ELSE groups[i]]

\* whether the insert of a URL row is accepted: never for a group without a
\* row (group_urls refers to url_groups, lines 97-104); a request may fail; a
\* row that repeats an earlier one is accepted or refused
InsertUrlOutcomes(id, url) ==
    IF ~GroupRowExists(id) THEN {FALSE}
    ELSE IF [group_id |-> id, url |-> url] \in dbGroupUrls THEN BOOLEAN
    ELSE DbOutcomes

\* App.handleAddUrl: the insert into group_urls has answered (lines 300-315)
AddUrlSaved(c) ==
    /\ calls[c].kind = "addUrl" /\ calls[c].pc = "insert"
    /\ \E ok \in InsertUrlOutcomes(calls[c].groupId, calls[c].url) :
          /\ dbErrors' = IF GroupRowExists(calls[c].groupId)
                            /\ [group_id |-> calls[c].groupId, url |-> calls[c].url]
                                  \notin dbGroupUrls
                         THEN AfterDb(ok) ELSE dbErrors
          /\ IF ok
             THEN /\ dbGroupUrls' = dbGroupUrls \cup
                                      {[group_id |-> calls[c].groupId, url |-> calls[c].url]}
                  /\ urlGroups' = WithUrlAdded(urlGroups, calls[c].groupId, calls[c].url)
             ELSE UNCHANGED <<dbGroupUrls, urlGroups>>
    /\ calls' = [calls EXCEPT ![c] = DoneCall]
    /\ UNCHANGED activeUrlGroupId
    /\ SuggestionsEffect
    /\ UNCHANGED <<chatFrame, ai, currentKey, dbGroups, isModalOpen, isFetchingUrls,
                   suggestedUrls>>

\* the groups that have a row or had one, and the inserts of a group in flight
GroupsCreated == Cardinality({n \in 1..MaxGroups : dbGroups[n] # "unused"})

AddGroupCalls == {c \in 1..MaxCalls : calls[c].kind = "addGroup"}

\* triggerUrlFetch(topic) up to its await (lines 151-157)
OpenModal ==
    /\ isModalOpen' = TRUE
    /\ isFetchingUrls' = TRUE
    /\ suggestedUrls' = <<>>

\* KnowledgeBaseManager.saveGroupAction while creating, with a name (lines
\* 167-177): handleAddGroup(name) up to its await, then triggerUrlFetch(name)
saveGroupAction ==
    /\ session
    /\ GroupsCreated + Cardinality(AddGroupCalls) < MaxGroups
    /\ Cardinality(FreeCalls) >= 2
    /\ calls' = [calls EXCEPT ![FreeCallAt(1)] =
                                 [FreeCall EXCEPT !.kind = "addGroup", !.pc = "insert"],
                              ![FreeCallAt(2)] =
                                 [FreeCall EXCEPT !.kind = "urlFetch", !.pc = "search"]]
    /\ OpenModal
    /\ UNCHANGED <<svcVars, appVars, dbVars, tasks, dbErrors, now, returnedSends,
                   suggestionCalls, dbGroups, dbGroupUrls>>

\* App.handleAddGroup: the insert into url_groups has answered (lines 345-356)
AddGroupSaved(c) ==
    /\ calls[c].kind = "addGroup" /\ calls[c].pc = "insert"
    /\ \E ok \in DbOutcomes :
          /\ dbErrors' = AfterDb(ok)
          /\ IF ok
             THEN /\ dbGroups' = [dbGroups EXCEPT ![GroupsCreated + 1] = "row"]
                  /\ urlGroups' = Append(urlGroups, [id |-> GroupIds[GroupsCreated + 1],
                                                     urls |-> <<>>])
                  /\ activeUrlGroupId' = GroupIds[GroupsCreated + 1]
             ELSE UNCHANGED <<dbGroups, urlGroups, activeUrlGroupId>>
    /\ calls' = [calls EXCEPT ![c] = DoneCall]
    /\ SuggestionsEffect
    /\ UNCHANGED <<chatFrame, ai, currentKey, dbGroupUrls, isModalOpen, isFetchingUrls,
                   suggestedUrls>>

\* KnowledgeBaseManager.handleManualFetchClick (lines 209-213)
handleManualFetchClick ==
    /\ activeUrlGroupId \in IdsOf(urlGroups)
    /\ FreeCalls # {}
    /\ calls' = [calls EXCEPT ![FreeCallAt(1)] =
                                 [FreeCall EXCEPT !.kind = "urlFetch", !.pc = "search"]]
    /\ OpenModal
    /\ UNCHANGED <<svcVars, appVars, dbVars, tasks, dbErrors, now, returnedSends,
                   suggestionCalls, dbGroups, dbGroupUrls>>

\* triggerUrlFetch: fetchRelevantUrlsFromSearch has settled (lines 158-164)
UrlFetchSettled(c) ==
    /\ calls[c].kind = "urlFetch" /\ calls[c].pc = "search"
    /\ \E resp \in GroupSearchResponses :
          LET out == fetchRelevantUrlsFromSearch("topic", userKey, envKey, Handle, resp)
          IN  /\ ai' = out.ai
              /\ currentKey' = out.currentKey
              /\ suggestedUrls' = IF out.raised THEN suggestedUrls ELSE out.value
    /\ isFetchingUrls' = FALSE
    /\ calls' = [calls EXCEPT ![c] = DoneCall]
    /\ UNCHANGED <<chatFrame, urlGroups, activeUrlGroupId, isFetchingSuggestions,
                   initialQuerySuggestions, suggestionCalls, dbErrors, dbGroups,
                   dbGroupUrls, isModalOpen>>

\* selectedUrls.filter(url => !urls.includes(url))
NotYetInGroup(selectedUrls) ==
    SelectSeq(selectedUrls, LAMBDA url : ~InList(currentUrlsForChat, url))

\* KnowledgeBaseManager.handleModalConfirm (lines 199-207); the modal shows
\* its confirm button once the search has settled
handleModalConfirm(selectedUrls) ==
    /\ isModalOpen /\ ~isFetchingUrls
    /\ StartAddUrls(NotYetInGroup(selectedUrls))
    /\ isModalOpen' = FALSE
    /\ suggestedUrls' = <<>>
    /\ UNCHANGED <<svcVars, appVars, dbVars, tasks, dbErrors, now, returnedSends,
                   suggestionCalls, dbGroups, dbGroupUrls, isFetchingUrls>>

\* onClose={() => setIsModalOpen(false)}
ModalClosed ==
    /\ isModalOpen
    /\ isModalOpen' = FALSE
    /\ UNCHANGED <<svcVars, appVars, dbVars, runVars, calls, suggestionCalls, dbGroups,
                   dbGroupUrls, isFetchingUrls, suggestedUrls>>

\* the group select: onChange={(e) => onSetGroupId(e.target.value)}
onSetGroupId(id) ==
    /\ id \in IdsOf(urlGroups)
    /\ activeUrlGroupId' = id
    /\ UNCHANGED urlGroups
    /\ SuggestionsEffect
    /\ UNCHANGED <<chatFrame, ai, currentKey, dbErrors, calls, groupVars>>

\* KnowledgeBaseManager.handleDeleteActiveGroup, confirmed by the user (lines
\* 184-189): handleDeleteGroup(activeUrlGroupId) up to its first await, with
\* the urlGroups and the activeUrlGroupId of the render it was created in
handleDeleteActiveGroup ==
    /\ Len(urlGroups) > 0
    /\ FreeCalls # {}
    /\ calls' = [calls EXCEPT ![FreeCallAt(1)] =
                    [FreeCall EXCEPT !.kind = "deleteGroup", !.pc = "deleteUrls",
                                     !.groupId = activeUrlGroupId,
                                     !.urlGroups = urlGroups,
                                     !.activeUrlGroupId = activeUrlGroupId]]
    /\ UNCHANGED <<svcVars, appVars, dbVars, tasks, dbErrors, now, returnedSends,
                   suggestionCalls, groupVars>>

\* handleDeleteGroup: the delete of the group's URL rows has answered (line
\* 375); its error is not looked at
DeleteUrlsDone(c) ==
    /\ calls[c].kind = "deleteGroup" /\ calls[c].pc = "deleteUrls"
    /\ \E ok \in DbOutcomes :
          /\ dbErrors' = AfterDb(ok)
          /\ dbGroupUrls' = IF ok THEN dbGroupUrls \ UrlRowsOf(calls[c].groupId)
                            ELSE dbGroupUrls
    /\ calls' = [calls EXCEPT ![c].pc = "deleteGroup"]
    /\ UNCHANGED <<svcVars, appVars, dbSessions, dbMessages, tasks, now, returnedSends,
                   suggestionCalls, dbGroups, isModalOpen, isFetchingUrls, suggestedUrls>>

\* what the delete of the group row may answer: a request may fail; a group
\* that still has URL rows is refused, or its rows go with it (group_urls
\* refers to url_groups); an id that is no id of the store may be refused
DeleteGroupOutcomes(id) ==
    IF UrlRowsOf(id) # {} THEN {"refused", "cascade"}
    ELSE IF id = "" THEN {"refused", "deleted"}
    ELSE {"deleted"} \cup (IF dbErrors < MaxDbErrors THEN {"failed"} ELSE {})

\* a delete that leaves the pointer where it is
AfterDeleteGroupKeepsPointer(groups, active, id) ==
    [urlGroups |-> SelectSeq(groups, LAMBDA group : group.id # id),
     activeUrlGroupId |-> activeUrlGroupId]

\* lines 383-391: the local list and the pointer after a delete that succeeded,
\* from the list and the pointer the handler holds
AfterDeleteGroup(groups, active, id) ==
    LET remainingGroups == SelectSeq(groups, LAMBDA group : group.id # id)
    IN  [urlGroups |-> remainingGroups,
         activeUrlGroupId |-> IF active = id
                              THEN IF Len(remainingGroups) > 0
                                   THEN remainingGroups[1].id ELSE ""
                              ELSE activeUrlGroupId]

\* handleDeleteGroup: the delete of the group row has answered (lines 377-395)
DeleteGroupAnswered(c, outcome) ==
    /\ calls[c].kind = "deleteGroup" /\ calls[c].pc = "deleteGroup"
    /\ outcome \in DeleteGroupOutcomes(calls[c].groupId)
    /\ LET id == calls[c].groupId
           after == AfterDeleteGroup(calls[c].urlGroups, calls[c].activeUrlGroupId, id)
       IN  /\ dbErrors' = IF outcome = "failed" THEN dbErrors + 1 ELSE dbErrors
           /\ IF outcome \in {"deleted", "cascade"}
              THEN /\ dbGroups' = [n \in 1..MaxGroups |->
                                     IF n = GroupNumber(id) /\ dbGroups[n] = "row"
                                     THEN "deleted" ELSE dbGroups[n]]
                   /\ dbGroupUrls' = dbGroupUrls \ UrlRowsOf(id)
                   /\ urlGroups' = after.urlGroups
                   /\ activeUrlGroupId' = after.activeUrlGroupId
              ELSE UNCHANGED <<dbGroups, dbGroupUrls, urlGroups, activeUrlGroupId>>
    /\ calls' = [calls EXCEPT ![c] = DoneCall]
    /\ SuggestionsEffect
    /\ UNCHANGED <<chatFrame, ai, currentKey, isModalOpen, isFetchingUrls, suggestedUrls>>

DeleteGroupDone(c) ==
    \E outcome \in {"deleted", "cascade", "refused", "failed"} :
        DeleteGroupAnswered(c, outcome)

\* the app of a signed-in user with a key saved, two groups loaded, the first
\* one below the cap, and the initial suggestions fetched
GroupsInit ==
    /\ envKey = ""
    /\ userKey = "key-A"
    /\ ai = "key-A"
    /\ currentKey = "key-A"
    /\ svc = Idle
    /\ session = TRUE
    /\ urlGroups = FilledGroups
    /\ activeUrlGroupId = "g1"
    /\ chatMessages = <<Message(Id("system-welcome", 0), <<"Welcome">>, SYSTEM, 0, FALSE)>>
    /\ currentSessionId = 0
    /\ chatSessions = <<>>
    /\ isLoading = FALSE
    /\ isFetchingSuggestions = FALSE
    /\ initialQuerySuggestions = <<"s5">>
    /\ isSettingsOpen = FALSE
    /\ dbSessions = 0
    /\ dbMessages = <<>>
    /\ tasks = [t \in 1..MaxTasks |-> FreeTask]
    /\ dbErrors = 0
    /\ now = 1
    /\ returnedSends = 0
    /\ calls = [c \in 1..MaxCalls |-> FreeCall]
    /\ suggestionCalls = <<>>
    /\ dbGroups = [n \in 1..MaxGroups |-> IF n <= Len(FilledGroups) THEN "row" ELSE "unused"]
    /\ dbGroupUrls = UNION {{[group_id |-> FilledGroups[g].id, url |-> FilledGroups[g].urls[i]] :
                               i \in 1..Len(FilledGroups[g].urls)} :
                            g \in 1..Len(FilledGroups)}
    /\ isModalOpen = FALSE
    /\ isFetchingUrls = FALSE
    /\ suggestedUrls = <<>>

GroupsNext ==
    \/ \E currentUrlInput \in ManualInputs : ManagerHandleAddUrl(currentUrlInput)
    \/ \E c \in 1..MaxCalls : AddUrlSaved(c)
    \/ saveGroupAction
    \/ \E c \in 1..MaxCalls : AddGroupSaved(c)
    \/ handleManualFetchClick
    \/ \E c \in 1..MaxCalls : UrlFetchSettled(c)
    \/ \E selectedUrls \in ModalSelections(suggestedUrls) : handleModalConfirm(selectedUrls)
    \/ ModalClosed
    \/ \E id \in IdsOf(urlGroups) : onSetGroupId(id)
    \/ handleDeleteActiveGroup
    \/ \E c \in 1..MaxCalls : DeleteUrlsDone(c)
    \/ \E c \in 1..MaxCalls : DeleteGroupDone(c)
    \/ SuggestionsFetched

SpecGroups == GroupsInit /\ [][GroupsNext]_vars

(***************************************************************************)
(* Feedback and history: handleFeedback and loadSession of App.            *)
(***************************************************************************)
\* MessageItem: the action bar, with the feedback buttons, is shown for a
\* model message that is not loading and has a text
FeedbackShown(m) == m.sender = MODEL /\ ~m.isLoading /\ Len(m.text) > 0

\* the button of the action bar that is clicked: "Good response"
FeedbackButtons == {"positive"}

\* message.feedback === button ? null : button
Toggled(m, button) == IF m.feedback = button THEN "none" ELSE button

\* prev.map(msg => msg.id === messageId ? { ...msg, feedback } : msg)
WithFeedback(msgs, messageId, feedback) ==
    [i \in 1..Len(msgs) |->
        IF msgs[i].id = messageId THEN [msgs[i] EXCEPT !.feedback = feedback]
        ELSE msgs[i]]

\* a feedback button of the i-th message is clicked: handleFeedback(message.id,
\* feedback) up to its first await (lines 414-425)
handleFeedback(i, button) ==
    /\ i \in 1..Len(chatMessages)
    /\ FeedbackShown(chatMessages[i])
    /\ FreeCalls # {}
    /\ LET m == chatMessages[i]
           feedback == Toggled(m, button)
       IN  /\ chatMessages' = WithFeedback(chatMessages, m.id, feedback)
           /\ calls' = [calls EXCEPT ![FreeCallAt(1)] =
                           IF currentSessionId # 0
                           THEN [FreeCall EXCEPT !.kind = "feedback", !.pc = "select",
                                                 !.messageId = m.id,
                                                 !.feedback = feedback]
                           ELSE DoneCall]
    /\ UNCHANGED <<svcVars, session, urlGroups, activeUrlGroupId, currentSessionId,
                   chatSessions, isLoading, isFetchingSuggestions,
                   initialQuerySuggestions, isSettingsOpen, dbVars, runVars,
                   suggestionCalls, groupVars>>

\* .eq('id', messageId): the row with that id, if the id is one of the store
RowOf(rows, messageId) ==
    IF messageId.tag = "db" /\ messageId.n \in 1..Len(rows) THEN messageId.n ELSE 0

\* handleFeedback: the select of the row's metadata has answered (lines
\* 421-431); with a row, the update of its metadata is issued
FeedbackSelected(c) ==
    /\ calls[c].kind = "feedback" /\ calls[c].pc = "select"
    /\ \E ok \in DbOutcomes :
          LET r == RowOf(dbMessages, calls[c].messageId)
          IN  /\ dbErrors' = AfterDb(ok)
              /\ calls' = [calls EXCEPT ![c] =
                             IF ok /\ r # 0
                             THEN [calls[c] EXCEPT !.pc = "update",
                                                   !.currentMeta = dbMessages[r].metadata]
                             ELSE DoneCall]
    /\ UNCHANGED <<svcVars, appVars, dbVars, tasks, now, returnedSends,
                   suggestionCalls, groupVars>>

\* { ...currentMeta, feedback }
MetadataWithFeedback(currentMeta, feedback) ==
    [currentMeta EXCEPT !.has = TRUE, !.feedback = feedback]

\* handleFeedback: the update of the row's metadata has answered (line 431)
FeedbackUpdated(c) ==
    /\ calls[c].kind = "feedback" /\ calls[c].pc = "update"
    /\ \E ok \in DbOutcomes :
          LET r == RowOf(dbMessages, calls[c].messageId)
          IN  /\ dbErrors' = AfterDb(ok)
              /\ dbMessages' =
                    IF ok /\ r # 0
                    THEN [dbMessages EXCEPT ![r].metadata =
                             MetadataWithFeedback(calls[c].currentMeta, calls[c].feedback)]
                    ELSE dbMessages
    /\ calls' = [calls EXCEPT ![c] = DoneCall]
    /\ UNCHANGED <<svcVars, appVars, dbSessions, tasks, now, returnedSends,
                   suggestionCalls, groupVars>>

\* the history tab: loadSession(sessionId) up to its await (lines 187-197)
loadSession(sessionId) ==
    /\ \E s \in 1..Len(chatSessions) : chatSessions[s] = sessionId
    /\ FreeCalls # {}
    /\ currentSessionId' = sessionId
    /\ calls' = [calls EXCEPT ![FreeCallAt(1)] =
                    [FreeCall EXCEPT !.kind = "loadSession", !.pc = "select",
                                     !.sessionId = sessionId]]
    /\ UNCHANGED <<svcVars, session, urlGroups, activeUrlGroupId, chatMessages,
                   chatSessions, isLoading, isFetchingSuggestions,
                   initialQuerySuggestions, isSettingsOpen, dbVars, runVars,
                   suggestionCalls, groupVars>>

\* .eq('session_id', sessionId).order('created_at', { ascending: true }): the
\* numbers of the rows of the session, oldest first
RECURSIVE RowsInOrder(_, _)
RowsInOrder(rows, among) ==
    IF among = {} THEN <<>>
    ELSE LET first == CHOOSE r \in among :
                         \A o \in among :
                            \/ rows[r].created_at < rows[o].created_at
                            \/ rows[r].created_at = rows[o].created_at /\ r <= o
         IN  <<first>> \o RowsInOrder(rows, among \ {first})

\* a reload that forgets the source selection of the rows
LoadedMessageWithoutSelection(rows, r) ==
    [Message(Id("db", r), rows[r].content, rows[r].sender, rows[r].created_at, FALSE)
        EXCEPT !.urlContext = IF rows[r].metadata.urlContext = "absent" THEN "none"
                              ELSE rows[r].metadata.urlContext,
               !.feedback = IF rows[r].metadata.feedback = "absent" THEN "none"
                            ELSE rows[r].metadata.feedback]

\* lines 200-209: the ChatMessage made of a row
LoadedMessage(rows, r) ==
    [Message(Id("db", r), rows[r].content, rows[r].sender, rows[r].created_at, FALSE)
        EXCEPT !.urlContext = IF rows[r].metadata.urlContext = "absent" THEN "none"
                              ELSE rows[r].metadata.urlContext,
               !.isSourceConfirmationPending =
                    rows[r].metadata.isSourceConfirmationPending = "true",
               !.sourceSelection = rows[r].metadata.sourceSelection,
               !.feedback = IF rows[r].metadata.feedback = "absent" THEN "none"
                            ELSE rows[r].metadata.feedback]

\* loadSession: the select of the session's rows has answered (lines 193-211)
SessionLoaded(c) ==
    /\ calls[c].kind = "loadSession" /\ calls[c].pc = "select"
    /\ \E ok \in DbOutcomes :
          LET order == RowsInOrder(dbMessages,
                                   {r \in 1..Len(dbMessages) :
                                       dbMessages[r].session_id = calls[c].sessionId})
          IN  /\ dbErrors' = AfterDb(ok)
              /\ chatMessages' =
                    IF ok
                    THEN [k \in 1..Len(order) |-> LoadedMessage(dbMessages, order[k])]
                    ELSE chatMessages
    /\ calls' = [calls EXCEPT ![c] = DoneCall]
    /\ UNCHANGED <<svcVars, session, urlGroups, activeUrlGroupId, currentSessionId,
                   chatSessions, isLoading, isFetchingSuggestions,
                   initialQuerySuggestions, isSettingsOpen, dbVars, tasks, now,
                   returnedSends, suggestionCalls, groupVars>>

\* the queries sent in the runs that look at the history
HistoryQueries == {"q1"}

\* the app is mounted with a key saved and the initial suggestions fetched
HistoryInit ==
    /\ envKey = ""
    /\ userKey = "key-A"
    /\ ai = "key-A"
    /\ currentKey = "key-A"
    /\ svc = Idle
    /\ AppInitial(FALSE)

\* the calls of handleSendMessage and handleConfirmSources made so far
TurnCalls == Cardinality({t \in 1..MaxTasks : tasks[t].pc # "free"})

HistoryNext ==
    \/ \E query \in HistoryQueries :
          TurnCalls < MaxHistoryTurnCalls /\ handleSendMessage(query)
    \/ \E t \in 1..MaxTasks : SendSessionCreated(t)
    \/ \E t \in 1..MaxTasks : SendUserMsgSaved(t)
    \/ \E t \in 1..MaxTasks : SendUrlsIdentified(t)
    \/ \E t \in 1..MaxTasks : SendPlaceholderSaved(t)
    \/ \E i \in 1..Len(chatMessages) :
          \E selectedUrls \in ConfirmChoices(chatMessages[i]) :
             TurnCalls < MaxHistoryTurnCalls /\ handleConfirmSources(i, selectedUrls)
    \/ \E t \in 1..MaxTasks : ConfirmLookupDone(t)
    \/ \E t \in 1..MaxTasks : StreamChunk(t)
    \/ \E t \in 1..MaxTasks : StreamEnd(t)
    \/ \E t \in 1..MaxTasks : StreamError(t)
    \/ \E t \in 1..MaxTasks : ConfirmPersisted(t)
    \/ \E i \in 1..Len(chatMessages), button \in FeedbackButtons : handleFeedback(i, button)
    \/ \E c \in 1..MaxCalls : FeedbackSelected(c)
    \/ \E c \in 1..MaxCalls : FeedbackUpdated(c)
    \/ \E sessionId \in 1..dbSessions : loadSession(sessionId)
    \/ \E c \in 1..MaxCalls : SessionLoaded(c)

SpecHistory == HistoryInit /\ [][HistoryNext]_vars

(***************************************************************************)
(* Properties of the generation client (checked under SpecService).        *)
(***************************************************************************)
IdentifyCalled == svc.op = "identifyRelevantUrls"

NoCredential == userKey = "" /\ envKey = ""

\* C5: for every query and every URL list with at most 3 entries (the empty
\* list included), identifyRelevantUrls returns exactly the input list, without
\* obtaining a backend handle or issuing a backend call, whether or not a
\* credential is configured.
C5_ShortListReturnedWithoutBackend ==
    (IdentifyCalled /\ Len(svc.urls) <= 3) =>
        /\ ~svc.out.raised
        /\ svc.out.value = svc.urls
        /\ svc.out.handleCalls = 0
        /\ svc.out.backendCalls = 0
        /\ svc.out.ai = svc.before.ai
        /\ svc.out.currentKey = svc.before.currentKey

C5_Witness ==
    /\ IdentifyCalled
    /\ Len(svc.urls) = 3
    /\ NoCredential
    /\ svc.out.value = svc.urls
    /\ svc.out.backendCalls = 0

\* the identification call did not get a list of relevant URLs: no credential,
\* a failed backend call, an empty text, a text that is no JSON value (a fenced
\* one included: this text is parsed as it is), or no array under relevant_urls
IdentifyFailed ==
    \/ NoCredential
    \/ svc.resp.about.shape \in {"failure", "none", "odd"}
    \/ svc.resp.about.layout \notin {"bare", "padded"}

\* C6: for a URL list with more than 3 entries identifyRelevantUrls never
\* raises, and on any failure (missing credential, backend error, empty response
\* text, unparsable JSON, no array under relevant_urls) it returns the full
\* input list unchanged.
C6_IdentifyNeverRaises ==
    (IdentifyCalled /\ Len(svc.urls) > 3) =>
        /\ ~svc.out.raised
        /\ IdentifyFailed => svc.out.value = svc.urls

C6_Witness ==
    /\ IdentifyCalled
    /\ Len(svc.urls) > 3
    /\ ~NoCredential
    /\ ~svc.resp.ok
    /\ svc.out.backendCalls = 1
    /\ ~svc.out.raised
    /\ svc.out.value = svc.urls

\* the number of characters of the context block that precede its i-th URL
RECURSIVE BlockOffset(_, _)
BlockOffset(urls, i) ==
    IF i = 1 THEN 0 ELSE BlockOffset(urls, i - 1) + Len(urls[i - 1]) + 1

\* C9: the prompt composed for an answer call is the query unchanged when
\* the URL list is empty; otherwise it is the query, the context header and a
\* block that holds every input URL in input order, one per position of the
\* list (duplicates kept, nothing dropped, cut or altered), separated by line
\* breaks; the streaming and the non-streaming operation compose the same prompt.
C9_PromptComposition ==
    svc.op = "composePrompt" =>
        LET q == svc.query
            urls == svc.urls
            n == Len(svc.urls)
            p == svc.out.streamFullPrompt
            base == Len(q) + Len(ContextHeader)
        IN  /\ svc.out.fullPrompt = p
            /\ n = 0 => p = q
            /\ n > 0 =>
                /\ SubSeq(p, 1, Len(q)) = q
                /\ SubSeq(p, Len(q) + 1, base) = ContextHeader
                /\ Len(p) = base + BlockOffset(urls, n) + Len(urls[n])
                /\ \A i \in 1..n :
                      SubSeq(p, base + BlockOffset(urls, i) + 1,
                                base + BlockOffset(urls, i) + Len(urls[i])) = urls[i]
                /\ \A i \in 2..n : p[base + BlockOffset(urls, i)] = NL

C9_Witness ==
    /\ svc.op = "composePrompt"
    /\ Len(svc.urls) = 3
    /\ svc.urls[1] = svc.urls[3]
    /\ Len(svc.urls[1]) > 0
    /\ Len(svc.query) > 0
    /\ Len(svc.out.streamFullPrompt) > Len(svc.query)

SearchAnswered ==
    /\ svc.op = "fetchRelevantUrlsFromSearch"
    /\ svc.out.backendCalls = 1
    /\ svc.resp.ok

\* C10: when the search response text is a well-formed JSON object with an
\* array under "urls", bare or wrapped in a Markdown code fence,
\* fetchRelevantUrlsFromSearch returns exactly that array in order, whatever the
\* grounding citations are.
C10_SearchReturnsParsedUrls ==
    (SearchAnswered /\ svc.resp.about.shape = "object") =>
        /\ ~svc.out.raised
        /\ svc.out.value = svc.resp.about.list

C10_Witness ==
    /\ SearchAnswered
    /\ svc.resp.about.shape = "object"
    /\ svc.resp.about.layout = "fence-json"
    /\ Len(svc.resp.about.list) = 2
    /\ svc.resp.grounded
    /\ Len(svc.resp.chunks) > 0
    /\ svc.out.value = svc.resp.about.list

\* the web URIs among the citations of the response observed
CitedUris == {svc.resp.chunks[i] : i \in 1..Len(svc.resp.chunks)} \ {""}

\* the position of the first citation of a URI
FirstCited(uri) ==
    CHOOSE i \in 1..Len(svc.resp.chunks) :
        /\ svc.resp.chunks[i] = uri
        /\ \A j \in 1..(i - 1) : svc.resp.chunks[j] # uri

\* C11: when the search response text is missing, is malformed JSON, or has no
\* array under "urls", fetchRelevantUrlsFromSearch returns the URLs of the
\* response's search-grounding citations in first-occurrence order, with
\* duplicates removed and at most 5 entries; citations without a web URI are
\* skipped.
C11_SearchFallsBackToCitations ==
    (SearchAnswered /\ svc.resp.about.shape = "odd") =>
        LET value == svc.out.value
            n == Len(svc.out.value)
        IN  /\ ~svc.out.raised
            /\ n <= 5
            /\ n = IF Cardinality(CitedUris) < 5 THEN Cardinality(CitedUris) ELSE 5
            /\ \A i \in 1..n : value[i] \in CitedUris
            /\ \A i, j \in 1..n : i < j => FirstCited(value[i]) < FirstCited(value[j])
            /\ \A uri \in CitedUris :
                  (n > 0 /\ FirstCited(uri) < FirstCited(value[n])) =>
                      \E i \in 1..n : value[i] = uri

\* a response without JSON text whose citations repeat, lack a URI and name
\* more than five URLs
C11_Witness ==
    /\ SearchAnswered
    /\ svc.resp.about.shape = "odd"
    /\ Cardinality(CitedUris) > 5
    /\ Len(svc.resp.chunks) > Cardinality(CitedUris) + 1
    /\ svc.out.value = <<"g3", "g1", "g2", "g4", "g5">>

\* C12: search-based URL discovery swallows errors: for every topic, when the
\* credential is missing or the backend search call fails,
\* fetchRelevantUrlsFromSearch returns an empty list and does not raise to its
\* caller.
C12_SearchSwallowsErrors ==
    (svc.op = "fetchRelevantUrlsFromSearch"
        /\ (svc.out.backendCalls = 0 \/ ~svc.resp.ok)) =>
        /\ ~svc.out.raised
        /\ svc.out.value = <<>>

\* the text of the result of getInitialSuggestions holds this suggestion list
HoldsSuggestions(text, list) ==
    /\ ParseJson(text).ok
    /\ ArrayUnder(ParseJson(text), "suggestions").isArray
    /\ ArrayUnder(ParseJson(text), "suggestions").list = list

\* the call observed found no credential when it asked for its handle
NoCredentialAtCall == svc.out.handleCalls = 1 /\ svc.out.backendCalls = 0

\* C13: the initial-suggestions path never raises and always settles: on an
\* empty URL list getInitialSuggestions returns the canned placeholder without a
\* backend call; on a missing credential or backend failure it returns an empty
\* suggestion list; on an unparsable or wrongly shaped response the view model
\* stores an empty suggestion list; in every case isFetchingSuggestions is
\* false once the fetch has finished.
C13_SuggestionsNeverRaise ==
    /\ svc.op = "getInitialSuggestions" =>
          /\ ~svc.out.raised
          /\ Len(svc.urls) = 0 =>
                /\ HoldsSuggestions(svc.out.value,
                                    <<"Add some URLs to get topic suggestions.">>)
                /\ svc.out.handleCalls = 0
                /\ svc.out.backendCalls = 0
          /\ (Len(svc.urls) > 0 /\ (NoCredential \/ ~svc.resp.ok)) =>
                HoldsSuggestions(svc.out.value, <<>>)
    /\ svc.op = "fetchAndSetInitialSuggestions" =>
          /\ ~svc.out.raised
          /\ ~isFetchingSuggestions
          /\ (Len(svc.urls) = 0 \/ NoCredentialAtCall
                \/ svc.resp.about.shape \in {"failure", "odd", "none"}) =>
                initialQuerySuggestions = <<>>

\* a fetch that was made with a credential and whose backend call failed
C13_Witness ==
    /\ svc.op = "fetchAndSetInitialSuggestions"
    /\ Len(svc.urls) > 0
    /\ svc.out.backendCalls = 1
    /\ ~svc.resp.ok
    /\ ~isFetchingSuggestions
    /\ initialQuerySuggestions = <<>>

MentionsKey(message) ==
    Includes(message, "API key not valid") \/ Includes(message, "API Key missing")

\* C14: handleGeminiError never returns normally and classifies every failure
\* into exactly one outcome: an error whose message mentions an invalid or
\* missing API key raises the credential error, otherwise one whose message
\* mentions quota raises the quota-exceeded error, otherwise any other Error is
\* re-raised as a generic failure carrying its message, and a non-Error value
\* raises the unknown-error failure; the credential check takes precedence over
\* the quota check.
C14_ErrorClassification ==
    svc.op = "handleGeminiError" =>
        LET error == svc.resp.error
            raisedMessage == svc.out.message
        IN  /\ svc.out.raised
            /\ (error.isError /\ MentionsKey(error.message)) =>
                  raisedMessage = "Invalid or Missing API Key. Please check settings."
            /\ (error.isError /\ ~MentionsKey(error.message)
                    /\ Includes(error.message, "quota")) =>
                  raisedMessage = "API quota exceeded."
            /\ (error.isError /\ ~MentionsKey(error.message)
                    /\ ~Includes(error.message, "quota")) =>
                  raisedMessage = error.message
            /\ ~error.isError => raisedMessage = "Unknown AI error."

\* an Error that mentions both an invalid key and the quota is a credential error
C14_Witness ==
    /\ svc.op = "handleGeminiError"
    /\ svc.resp.error.isError
    /\ MentionsKey(svc.resp.error.message)
    /\ Includes(svc.resp.error.message, "quota")
    /\ svc.out.raised
    /\ svc.out.message = "Invalid or Missing API Key. Please check settings."

(***************************************************************************)
(* Properties of the chat (checked under Spec).                            *)
(***************************************************************************)
Tasks == 1..MaxTasks

\* the states of a turn, read off its model message
AnalyzingSources(m) ==
    m.sender = MODEL /\ m.isLoading /\ ~m.isSourceConfirmationPending /\ ~m.sourceSelection.has

SourcesPendingConfirmation(m) ==
    m.sender = MODEL /\ ~m.isLoading /\ m.isSourceConfirmationPending /\ m.sourceSelection.has

AnsweringStreaming(m) ==
    m.sender = MODEL /\ m.isLoading /\ ~m.isSourceConfirmationPending /\ m.sourceSelection.has

Errored(m) ==
    m.sender = MODEL /\ ~m.isLoading /\ ~m.isSourceConfirmationPending /\ IsErrorText(m.text)

Answered(m) ==
    /\ m.sender = MODEL /\ ~m.isLoading /\ ~m.isSourceConfirmationPending
    /\ m.sourceSelection.has /\ ~IsErrorText(m.text)

\* C1: whenever isLoading or isFetchingSuggestions is true, a call of
\* handleSendMessage is a no-op: no step taken from such a state starts a send
\* turn, and a step in which a call returns leaves the message list, the
\* session list, the current session id, the loading flags, the remote tables,
\* the backend handle and every handler invocation as they are.
C1_SendWhileBusyIsNoOp ==
    [][(isLoading \/ isFetchingSuggestions) =>
          /\ \A t \in Tasks : tasks'[t].kind = "send" => tasks[t].kind = "send"
          /\ returnedSends' # returnedSends =>
                UNCHANGED <<chatMessages, chatSessions, currentSessionId, isLoading,
                            isFetchingSuggestions, dbSessions, dbMessages, tasks,
                            ai, currentKey>>]_vars

\* a call of handleSendMessage has returned while suggestions were being
\* fetched (isFetchingSuggestions is true from the start until the fetch ends)
C1_Witness ==
    /\ returnedSends = 1
    /\ isFetchingSuggestions
    /\ \A t \in Tasks : tasks[t].pc = "free"

\* the handler invocations that await the backend
OutstandingGenerationCalls == {t \in Tasks : tasks[t].pc \in {"identify", "stream"}}

\* C2: in every reachable state at most one backend generation call
\* (relevant-URL identification or streaming answer) is outstanding, over the
\* turns started by handleSendMessage and by handleConfirmSources.
C2_AtMostOneTurnInFlight == Cardinality(OutstandingGenerationCalls) <= 1

\* the invocation t of handleConfirmSources starts its answer in this step
StartsAnswer(t) ==
    /\ tasks[t].pc \in {"free", "lookup"}
    /\ tasks'[t].kind \in {"confirm", "done"}
    /\ tasks'[t].pc \in {"stream", "done"}

\* the user's confirmation of the i-th message starts its answer in this step
ConfirmedNow(i) ==
    \E t \in Tasks :
        /\ StartsAnswer(t)
        /\ tasks[t].pc = "lookup" => tasks[t].clicked = i
        /\ tasks'[t].pc = "stream" => tasks'[t].clicked = i

\* C3: the model message of a turn passes through AnalyzingSources,
\* SourcesPendingConfirmation, AnsweringStreaming and Answered in this order
\* (Errored is entered from AnalyzingSources and AnsweringStreaming only), and
\* it leaves SourcesPendingConfirmation only in a step in which the user's
\* confirmation of this message starts its answer.
C3_TurnStatesInOrder ==
    [][\A i \in 1..Len(chatMessages) :
          LET m == chatMessages[i]
              n == chatMessages'[i]
          IN  /\ i <= Len(chatMessages')
              /\ AnalyzingSources(m) =>
                    AnalyzingSources(n) \/ SourcesPendingConfirmation(n) \/ Errored(n)
              /\ SourcesPendingConfirmation(m) =>
                    \/ SourcesPendingConfirmation(n)
                    \/ ConfirmedNow(i) /\ (AnsweringStreaming(n) \/ Errored(n))
              /\ AnsweringStreaming(m) =>
                    AnsweringStreaming(n) \/ Answered(n) \/ Errored(n)
              /\ (Answered(m) \/ Errored(m)) =>
                    \/ Answered(n) \/ Errored(n)
                    \/ ConfirmedNow(i) /\ AnsweringStreaming(n)]_vars

\* the write of the answer of the invocation t is applied in this step
AnswerWritten(t) ==
    /\ tasks[t].kind = "confirm"
    /\ tasks[t].pc = "persist"
    /\ tasks'[t].pc = "done"
    /\ dbErrors' = dbErrors

\* C4: when the answer of a confirmed turn is persisted, the row written (the
\* row found, on the update path; the new row, on the insert path) has as
\* content the full accumulated stream text and as metadata.sourceSelection
\* the query and the URL set passed to handleConfirmSources; no other row
\* changes, and on the insert path the row belongs to the session of the call.
C4_PersistedAnswer ==
    [][\A t \in Tasks : AnswerWritten(t) =>
          LET tk == tasks[t]
              r == IF tk.dbMessageId # NoId THEN tk.dbMessageId.n ELSE Len(dbMessages) + 1
          IN  /\ Len(dbMessages') = IF tk.dbMessageId # NoId THEN Len(dbMessages)
                                    ELSE Len(dbMessages) + 1
              /\ r \in 1..Len(dbMessages')
              /\ dbMessages'[r].content = tk.accumulatedText
              /\ dbMessages'[r].metadata.sourceSelection = Selection(tk.query, tk.urls)
              /\ dbMessages'[r].sender = MODEL
              /\ dbMessages'[r].session_id = tk.activeSessionId
              /\ \A o \in 1..Len(dbMessages) : o # r => dbMessages'[o] = dbMessages[o]]_vars

\* a row updated with an answer and a URL set the user edited, next to a row
\* inserted with an answer
C4_Witness ==
    /\ \E r \in 1..Len(dbMessages) :
          /\ dbMessages[r].content = <<"a">>
          /\ dbMessages[r].metadata.isSourceConfirmationPending = "false"
          /\ dbMessages[r].metadata.sourceSelection.urls = <<"u2", "u9">>
    /\ \E r \in 1..Len(dbMessages) :
          /\ dbMessages[r].content = <<"a">>
          /\ dbMessages[r].metadata.isSourceConfirmationPending = "absent"
          /\ dbMessages[r].metadata.sourceSelection.has

\* the streaming call of the invocation t fails in this step
StreamFails(t) ==
    /\ tasks[t].kind = "confirm"
    /\ tasks[t].pc = "stream"
    /\ tasks'[t].pc = "done"

\* C7: when the streaming call of a turn fails, before the first fragment or
\* after fragments, the turn's message shows an error string in place of the
\* accumulated text, its isLoading flag and the global isLoading flag are
\* false, and nothing is written to the remote tables.
C7_StreamFailureEndsInError ==
    [][\A t \in Tasks : StreamFails(t) =>
          /\ IsErrorText(chatMessages'[tasks[t].clicked].text)
          /\ ~chatMessages'[tasks[t].clicked].isLoading
          /\ ~isLoading'
          /\ UNCHANGED <<dbSessions, dbMessages>>]_vars

\* the identification call of the invocation t settles in this step
IdentificationSettles(t) ==
    /\ tasks[t].kind = "send"
    /\ tasks[t].pc = "identify"
    /\ tasks'[t].pc # "identify"

\* the positions of the placeholder of the invocation t
PlaceholdersOf(t) ==
    {i \in 1..Len(chatMessages) : chatMessages[i].id = tasks[t].selectionPlaceholderId}

\* C8 as stated: if the backend call of the identification fails, the
\* placeholder's text is replaced by an error string, its isLoading flag is
\* cleared, and the turn does not reach SourcesPendingConfirmation.
C8_IdentifyFailureEndsInError ==
    [][\A t \in Tasks :
          (IdentificationSettles(t) /\ (tasks'[t].backendFailed \/ tasks'[t].pc = "done")) =>
              /\ tasks'[t].pc = "done"
              /\ \A i \in PlaceholdersOf(t) :
                    /\ IsErrorText(chatMessages'[i].text)
                    /\ ~chatMessages'[i].isLoading
                    /\ ~chatMessages'[i].isSourceConfirmationPending]_vars

\* C8 amended: the identification call of a turn never ends the turn; if its
\* backend call fails, the placeholder becomes the source selection over the
\* full URL list the turn was started with: its isLoading flag is cleared, its
\* text is left as it is, and the row of the selection is about to be saved
\* with that list.
C8_IdentifyFailureOffersAllUrls ==
    [][\A t \in Tasks : IdentificationSettles(t) =>
          /\ tasks'[t].pc = "savePlaceholder"
          /\ tasks'[t].backendFailed =>
                /\ tasks'[t].relevantUrls = tasks[t].urls
                /\ \A i \in PlaceholdersOf(t) :
                      /\ SourcesPendingConfirmation(chatMessages'[i])
                      /\ chatMessages'[i].sourceSelection =
                            Selection(tasks[t].query, tasks[t].urls)
                      /\ chatMessages'[i].text = chatMessages[i].text]_vars

\* a turn whose identification call failed shows the source selection over the
\* four URLs of the group
C8_Witness ==
    \E t \in Tasks :
        /\ tasks[t].pc = "savePlaceholder"
        /\ tasks[t].backendFailed
        /\ \E i \in 1..Len(chatMessages) :
              /\ chatMessages[i].id = tasks[t].selectionPlaceholderId
              /\ SourcesPendingConfirmation(chatMessages[i])
              /\ chatMessages[i].sourceSelection.urls = <<"u1", "u2", "u3", "u4">>
              /\ chatMessages[i].text = AnalyzingText

(***************************************************************************)
(* A send without a credential (checked under Spec).                       *)
(***************************************************************************)
\* what a call that is fatal for the turn leaves alone: the message list, the
\* session list, the current session id, the isLoading flag, and every backend
\* or persistence call (no task started, no row written, no suggestions call)
TurnUntouched ==
    UNCHANGED <<chatMessages, chatSessions, currentSessionId, isLoading, tasks,
                dbSessions, dbMessages, suggestionCalls, svcVars>>

\* C17 as stated: every call of handleSendMessage with a non-blank query made
\* while neither key is available opens the settings panel and leaves the
\* message list, the session list, the current session id, isLoading and the
\* backend and the store untouched.
C17_NoKeySendOpensSettings ==
    [][\A query \in ChatQueries :
          (TrimQuery(query) # "" /\ ~hasKey /\ handleSendMessage(query))
             => (isSettingsOpen' /\ TurnUntouched)]_vars

\* C17 amended: the same, for calls made while a user is signed in and neither
\* isLoading nor isFetchingSuggestions is set; a call made while one of the two
\* flags is set returns at the first guard and leaves the settings panel as it
\* was.
C17_NoKeySendOpensSettingsWhenIdle ==
    [][\A query \in ChatQueries :
          (TrimQuery(query) # "" /\ ~hasKey /\ handleSendMessage(query))
             => /\ TurnUntouched
                /\ (session /\ ~isLoading /\ ~isFetchingSuggestions) => isSettingsOpen'
                /\ (isLoading \/ isFetchingSuggestions) => UNCHANGED isSettingsOpen]_vars

\* the settings panel was opened by a send made without a key
C17_Witness ==
    isSettingsOpen /\ ~hasKey /\ ~isLoading /\ ~isFetchingSuggestions

(***************************************************************************)
(* Pending source confirmations (checked under Spec).                      *)
(***************************************************************************)
\* no handler invocation of the chat is suspended at an await
Quiescent == \A t \in 1..MaxTasks : tasks[t].pc \in {"free", "done"}

\* the local messages that carry the source selection of the query
SelectionMessages(query) ==
    {i \in 1..Len(chatMessages) :
        /\ chatMessages[i].sourceSelection.has
        /\ chatMessages[i].sourceSelection.originalQuery = query}

\* the rows of the query saved with the flag isSourceConfirmationPending = flag
RowsOf(query, flag) ==
    {r \in 1..Len(dbMessages) :
        /\ dbMessages[r].metadata.sourceSelection.has
        /\ dbMessages[r].metadata.sourceSelection.originalQuery = query
        /\ dbMessages[r].metadata.isSourceConfirmationPending = flag}

\* every turn of the query is Answered and its answer is saved: no local
\* message of the query waits for a confirmation, is loading or shows an error
TurnsAnswered(query) ==
    /\ SelectionMessages(query) # {}
    /\ \A i \in SelectionMessages(query) :
          /\ ~chatMessages[i].isSourceConfirmationPending
          /\ ~chatMessages[i].isLoading
          /\ ~IsErrorText(chatMessages[i].text)
    /\ RowsOf(query, "false") \cup RowsOf(query, "absent") # {}

\* C19: once the turns of a query are Answered and every write has resolved
\* (no call is suspended, no request to the store has failed), no persisted
\* row of the query still has isSourceConfirmationPending = true.
C19_PendingResolvedOnceAnswered ==
    (Quiescent /\ dbErrors = 0) =>
        \A query \in ChatQueries :
            TurnsAnswered(query) => RowsOf(query, "true") = {}

(***************************************************************************)
(* URL groups (checked under SpecGroups).                                  *)
(***************************************************************************)
\* the pointer names no group, or a group of the local list
PointerInList == activeUrlGroupId = "" \/ activeUrlGroupId \in IdsOf(urlGroups)

\* C15: when the delete of the group row issued by handleDeleteGroup(id)
\* succeeds, no URL row of id is left in the remote store, id is absent from
\* the local list, and the pointer is unchanged if id was not the active group
\* when the handler was called, the first remaining group if it was and groups
\* remain, and empty if none remain; and in every state reached by adding,
\* selecting and deleting groups the pointer is empty or names a group of the
\* local list.
C15_DeleteGroup ==
    /\ []PointerInList
    /\ [][\A c \in 1..MaxCalls : \A outcome \in {"deleted", "cascade"} :
            DeleteGroupAnswered(c, outcome) =>
               LET id == calls[c].groupId
               IN  /\ \A row \in dbGroupUrls' : row.group_id # id
                   /\ id \notin IdsOf(urlGroups')
                   /\ activeUrlGroupId' =
                         IF calls[c].activeUrlGroupId # id THEN activeUrlGroupId
                         ELSE IF Len(urlGroups') > 0 THEN urlGroups'[1].id
                         ELSE ""]_vars

\* both groups of the user were deleted, the first while the second remained:
\* none is left locally, no URL row is left, and the pointer is empty
C15_Witness ==
    /\ dbGroups[1] = "deleted" /\ dbGroups[2] = "deleted"
    /\ urlGroups = <<>>
    /\ activeUrlGroupId = ""
    /\ dbGroupUrls = {}

\* the list holds no URL twice
NoRepeats(urls) == \A i, j \in 1..Len(urls) : urls[i] = urls[j] => i = j

\* C18: whatever URLs are added through the add field and through the modal,
\* every group of the local list holds no URL twice and at most MAX_URLS URLs.
C18_GroupsAreCappedSets ==
    \A g \in 1..Len(urlGroups) :
        /\ NoRepeats(urlGroups[g].urls)
        /\ Len(urlGroups[g].urls) <= MAX_URLS

(***************************************************************************)
(* Feedback and reload (checked under SpecHistory).                        *)
(***************************************************************************)
\* no call of handleFeedback is suspended, and no request to the store failed
FeedbackSettled ==
    /\ \A c \in 1..MaxCalls : calls[c].kind # "feedback"
    /\ dbErrors = 0

\* every local message whose row holds a feedback written by a toggle shows
\* the feedback its row holds
FeedbackMatches ==
    \A i \in 1..Len(chatMessages) :
        LET r == RowOf(dbMessages, chatMessages[i].id)
        IN  (r # 0 /\ dbMessages[r].metadata.feedback # "absent")
               => dbMessages[r].metadata.feedback = chatMessages[i].feedback

\* C16: each toggle of the feedback of a persisted message writes its value to
\* metadata.feedback of the row and leaves the other fields of the row's
\* metadata as they are; once the toggles made have been written, the row
\* holds the feedback the message shows (positive after the first toggle, none
\* after the second).
C16_FeedbackRoundTrip ==
    [][/\ \A c \in 1..MaxCalls :
             (FeedbackUpdated(c) /\ dbErrors' = dbErrors
                 /\ RowOf(dbMessages, calls[c].messageId) # 0)
                => LET r == RowOf(dbMessages, calls[c].messageId)
                   IN  dbMessages'[r].metadata =
                          [dbMessages[r].metadata EXCEPT !.has = TRUE,
                                                         !.feedback = calls[c].feedback]
       /\ FeedbackSettled' => FeedbackMatches']_vars

\* the turn of the i-th local message is in SourcesPendingConfirmation and
\* its pending row has been written in the session: the message waits for its
\* confirmation and the row has not been given an answer
PendingAndSaved(i, sessionId) ==
    LET m == chatMessages[i]
        r == RowOf(dbMessages, m.id)
    IN  /\ m.sender = MODEL
        /\ m.isSourceConfirmationPending
        /\ m.sourceSelection.has
        /\ r # 0
        /\ dbMessages[r].session_id = sessionId
        /\ dbMessages[r].metadata.isSourceConfirmationPending = "true"

\* C20: when loadSession has read the rows of a session, every turn of it
\* that is pending locally with its pending row written is shown again by a
\* model message with the id of the row, isSourceConfirmationPending = true
\* and the originalQuery and urls held before the reload, and that message can
\* be confirmed: it offers a URL set and the current session is set.
C20_PendingSurvivesReload ==
    [][\A c \in 1..MaxCalls :
          (SessionLoaded(c) /\ chatMessages' # chatMessages) =>
             \A i \in 1..Len(chatMessages) :
                PendingAndSaved(i, calls[c].sessionId) =>
                   \E j \in 1..Len(chatMessages') :
                      /\ chatMessages'[j].id = chatMessages[i].id
                      /\ chatMessages'[j].sender = MODEL
                      /\ chatMessages'[j].isSourceConfirmationPending
                      /\ chatMessages'[j].sourceSelection = chatMessages[i].sourceSelection
                      /\ ConfirmChoices(chatMessages'[j]) # {}
                      /\ currentSessionId' = calls[c].sessionId]_vars

\* a pending turn as loadSession shows it: the text of its message is the
\* empty content of the pending row
C20_Witness ==
    \E i \in 1..Len(chatMessages) :
        /\ PendingAndSaved(i, currentSessionId)
        /\ chatMessages[i].text = <<>>
        /\ ConfirmChoices(chatMessages[i]) # {}


(***************************************************************************)
(* The suggestions shown (checked under SpecService).                      *)
(***************************************************************************)
\* a suggestions fetch for a non-empty URL list has settled with an answer of
\* the backend that is an object holding an array of strings
SuggestionsAnswered ==
    /\ svc.op = "fetchAndSetInitialSuggestions"
    /\ Len(svc.urls) > 0
    /\ svc.out.backendCalls = 1
    /\ svc.resp.ok
    /\ svc.resp.about.shape = "object"

\* C30: after a suggestions fetch for a non-empty URL list,
\* initialQuerySuggestions holds the first min(4, n) of the n strings of the
\* backend's suggestions array, in order.
C30_SuggestionsLimitedToFour ==
    SuggestionsAnswered
        => initialQuerySuggestions = TakeFirst(svc.resp.about.list, 4)


\* C26: each URL returned by identifyRelevantUrls is a member of the input URL
\* list.
C26_IdentifiedUrlsAreInputUrls ==
    svc.op = "identifyRelevantUrls"
        => \A i \in 1..Len(svc.out.value) :
              \E j \in 1..Len(svc.urls) : svc.urls[j] = svc.out.value[i]


(***************************************************************************)
(* The cached handle after a call of getAiInstance (SpecService).          *)
(***************************************************************************)
\* the credential active now; no key is saved while an operation is recorded
ActiveKey == IF userKey # "" THEN userKey ELSE envKey

\* the operation recorded in svc called getAiInstance
HandleObtained ==
    /\ svc.op \in {"identifyRelevantUrls", "fetchRelevantUrlsFromSearch",
                   "getInitialSuggestions", "awaitInitialSuggestions",
                   "fetchAndSetInitialSuggestions"}
    /\ svc.out.handleCalls = 1

\* C23: after a call of getAiInstance the cached handle was built from the
\* active credential and currentKey equals it; the handle is rebuilt exactly
\* when the active credential differs from the cached one (or none is cached);
\* with no credential the call raises, the backend is not called, and the
\* cached handle and key are as they were.
C23_HandleFollowsActiveKey ==
    HandleObtained =>
        LET g == getAiInstance(userKey, envKey, svc.before)
        IN  /\ ai = g.ai /\ currentKey = g.currentKey
            /\ IF ActiveKey = ""
               THEN /\ g.raised /\ ~g.built
                    /\ svc.out.backendCalls = 0
                    /\ ai = svc.before.ai /\ currentKey = svc.before.currentKey
               ELSE /\ ~g.raised
                    /\ ai = ActiveKey /\ currentKey = ActiveKey
                    /\ g.built <=> svc.before.currentKey # ActiveKey
                    /\ ~g.built => ai = svc.before.ai

\* a call that found a handle built from another key and rebuilt it
C23_Witness ==
    /\ HandleObtained
    /\ svc.before.ai # "null"
    /\ svc.before.currentKey # ActiveKey
    /\ ai = ActiveKey


(***************************************************************************)
(* The ids of the local messages (Spec).                                   *)
(***************************************************************************)
\* the local messages a turn has added: all but the welcome message
TurnMessages == {i \in 1..Len(chatMessages) : chatMessages[i].sender # SYSTEM}

\* message i carries the id of a row of the store that was saved for it
CarriesOwnRow(i) ==
    LET m == chatMessages[i]
    IN  /\ m.id.tag = "db"
        /\ m.id.n \in 1..Len(dbMessages)
        /\ dbMessages[m.id.n].sender = m.sender
        /\ m.sender = USER => dbMessages[m.id.n].content = m.text
        /\ \A j \in TurnMessages : chatMessages[j].id = m.id => j = i

\* C21: once no call is suspended and no request to the store has failed, no
\* local message of a turn carries a temporary id (user-, selection-): each
\* carries the id of its own persisted row.
C21_TemporaryIdsReplaced ==
    (Quiescent /\ dbErrors = 0) => \A i \in TurnMessages : CarriesOwnRow(i)


(***************************************************************************)
(* The answering message while its stream is consumed (Spec).              *)
(***************************************************************************)
\* the calls of handleConfirmSources that are consuming their stream
Streaming == {t \in 1..MaxTasks : tasks[t].kind = "confirm" /\ tasks[t].pc = "stream"}

\* the message the call t was started on shows what the call has accumulated
ShowsAccumulated(t) ==
    LET m == chatMessages[tasks[t].clicked]
    IN  /\ m.text = tasks[t].accumulatedText
        /\ tasks[t].finalUrlContext # "none" => m.urlContext = tasks[t].finalUrlContext

\* C22: while a call consumes its stream, after each fragment the answering
\* message's text is the concatenation of the fragments applied so far, its
\* urlContext is the metadata of the last fragment that carried any, and its
\* isLoading flag is true; when the stream completes the message holds the
\* whole text and that metadata and stops loading.
C22_StreamAppliedInOrder ==
    /\ [](\A t \in Streaming :
             ShowsAccumulated(t) /\ chatMessages[tasks[t].clicked].isLoading)
    /\ [][\A t \in Streaming :
             StreamEnd(t) => /\ ShowsAccumulated(t)'
                             /\ ~chatMessages'[tasks[t].clicked].isLoading]_vars


(***************************************************************************)
(* What the updates of a confirm or regenerate call change (Spec).         *)
(***************************************************************************)
\* the step leaves text, isLoading, urlContext and id of every message but
\* the i-th as they were
OnlyChanges(i) ==
    /\ Len(chatMessages') = Len(chatMessages)
    /\ \A j \in 1..Len(chatMessages) :
          j # i => /\ chatMessages'[j].text = chatMessages[j].text
                   /\ chatMessages'[j].isLoading = chatMessages[j].isLoading
                   /\ chatMessages'[j].urlContext = chatMessages[j].urlContext
                   /\ chatMessages'[j].id = chatMessages[j].id

\* C24: the incremental updates, the final update and the error update of a
\* confirm or regenerate call change text, isLoading, urlContext and id of no
\* message other than the one that was confirmed.
C24_UpdatesChangeOnlyConfirmed ==
    [][\A t \in 1..MaxTasks :
          (StreamChunk(t) \/ StreamEnd(t) \/ StreamError(t))
              => OnlyChanges(tasks[t].clicked)]_vars


\* C25: the ids of the messages in the local chat list are pairwise distinct.
C25_MessageIdsDistinct ==
    \A i, j \in 1..Len(chatMessages) :
        chatMessages[i].id = chatMessages[j].id => i = j


(***************************************************************************)
(* Answered messages and their rows (SpecHistory).                         *)
(***************************************************************************)
\* no call of any handler is suspended and no request to the store has failed
AllResolved ==
    /\ Quiescent
    /\ \A c \in 1..MaxCalls : calls[c].pc \in {"free", "done"}
    /\ dbErrors = 0

\* the local messages that show an answer and carry the id of a row
AnsweredMessages ==
    {i \in 1..Len(chatMessages) :
        /\ chatMessages[i].sender = MODEL
        /\ chatMessages[i].sourceSelection.has
        /\ ~chatMessages[i].isSourceConfirmationPending
        /\ ~chatMessages[i].isLoading
        /\ ~IsErrorText(chatMessages[i].text)
        /\ RowOf(dbMessages, chatMessages[i].id) # 0}

\* C27: once all writes have resolved, the feedback and the urlContext an
\* answered message holds locally are those loadSession would restore from
\* the metadata of its row.
C27_AnsweredMirrorsRow ==
    AllResolved =>
        \A i \in AnsweredMessages :
            LET restored == LoadedMessage(dbMessages, RowOf(dbMessages, chatMessages[i].id))
            IN  /\ chatMessages[i].feedback = restored.feedback
                /\ chatMessages[i].urlContext = restored.urlContext


(***************************************************************************)
(* The history tab with several saved sessions (SpecSessions).             *)
(***************************************************************************)
\* the rows of two sessions saved by earlier conversations
SavedRows ==
    <<Row(1, USER, <<"q1">>, 1, NoMetadata),
      Row(1, MODEL, <<"a">>, 2, UpdateMetadata("m1", "q1", <<"u1">>)),
      Row(2, USER, <<"q2">>, 3, NoMetadata),
      Row(2, MODEL, <<"a">>, 4, UpdateMetadata("none", "q2", <<"u2">>))>>

\* setChatMessages([]); setWelcomeMessage(activeGroup)
WelcomeMessages == <<Message(Id("system-welcome", 0), <<"Welcome">>, SYSTEM, 0, FALSE)>>

\* lines 398-404: "New Chat"
handleNewChat ==
    /\ currentSessionId' = 0
    /\ chatMessages' = WelcomeMessages
    /\ UNCHANGED <<svcVars, session, urlGroups, activeUrlGroupId, chatSessions,
                   isLoading, isFetchingSuggestions, initialQuerySuggestions,
                   isSettingsOpen, dbVars, runVars, moreVars>>

\* the app is mounted by a user who has two saved sessions: fetchSessions has
\* answered and has called loadSession for the most recent one (lines 164-176)
SessionsInit ==
    /\ envKey = ""
    /\ userKey = "key-A"
    /\ ai = "key-A"
    /\ currentKey = "key-A"
    /\ svc = Idle
    /\ session = TRUE
    /\ urlGroups = DefaultGroups
    /\ activeUrlGroupId = "g1"
    /\ chatMessages = WelcomeMessages
    /\ currentSessionId = 2
    /\ chatSessions = <<2, 1>>
    /\ isLoading = FALSE
    /\ isFetchingSuggestions = FALSE
    /\ initialQuerySuggestions = <<>>
    /\ isSettingsOpen = FALSE
    /\ dbSessions = 2
    /\ dbMessages = SavedRows
    /\ tasks = [t \in 1..MaxTasks |-> FreeTask]
    /\ dbErrors = 0
    /\ now = 5
    /\ returnedSends = 0
    /\ calls = [c \in 1..MaxCalls |->
                   IF c = 1
                   THEN [FreeCall EXCEPT !.kind = "loadSession", !.pc = "select",
                                         !.sessionId = 2]
                   ELSE FreeCall]
    /\ suggestionCalls = <<>>
    /\ dbGroups = [n \in 1..MaxGroups |-> IF n = 1 THEN "row" ELSE "unused"]
    /\ dbGroupUrls = {[group_id |-> "g1", url |-> DefaultGroups[1].urls[i]] :
                          i \in 1..Len(DefaultGroups[1].urls)}
    /\ isModalOpen = FALSE
    /\ isFetchingUrls = FALSE
    /\ suggestedUrls = <<>>

SessionsNext ==
    \/ \E sessionId \in 1..dbSessions : loadSession(sessionId)
    \/ \E c \in 1..MaxCalls : SessionLoaded(c)
    \/ handleNewChat
    \/ \E i \in 1..Len(chatMessages), button \in FeedbackButtons : handleFeedback(i, button)
    \/ \E c \in 1..MaxCalls : FeedbackSelected(c)
    \/ \E c \in 1..MaxCalls : FeedbackUpdated(c)

SpecSessions == SessionsInit /\ [][SessionsNext]_vars

\* the messages loadSession makes of the rows of a session, oldest first
PersistedList(sessionId) ==
    LET order == RowsInOrder(dbMessages,
                             {r \in 1..Len(dbMessages) :
                                 dbMessages[r].session_id = sessionId})
    IN  [k \in 1..Len(order) |-> LoadedMessage(dbMessages, order[k])]

\* C28: whenever no call of any handler is outstanding and a session is
\* current, the displayed list is the persisted list of that session.
C28_DisplayedIsCurrentSession ==
    (/\ Quiescent
     /\ \A c \in 1..MaxCalls : calls[c].pc \in {"free", "done"}
     /\ currentSessionId # 0)
        => chatMessages = PersistedList(currentSessionId)


(***************************************************************************)
(* Turns whose awaited calls all return or raise (SpecLive).               *)
(***************************************************************************)
\* the turns started in the runs that look at termination
MaxLiveTurnCalls == 2

LiveNext ==
    \/ \E key \in ChatKeys : handleSave(key)
    \/ \E query \in ChatQueries :
          TurnCalls < MaxLiveTurnCalls /\ handleSendMessage(query)
    \/ \E t \in 1..MaxTasks : SendSessionCreated(t)
    \/ \E t \in 1..MaxTasks : SendUserMsgSaved(t)
    \/ \E t \in 1..MaxTasks : SendUrlsIdentified(t)
    \/ \E t \in 1..MaxTasks : SendPlaceholderSaved(t)
    \/ \E i \in 1..Len(chatMessages) :
          \E selectedUrls \in ConfirmChoices(chatMessages[i]) :
             TurnCalls < MaxLiveTurnCalls /\ handleConfirmSources(i, selectedUrls)
    \/ \E t \in 1..MaxTasks : ConfirmLookupDone(t)
    \/ \E t \in 1..MaxTasks : StreamChunk(t)
    \/ \E t \in 1..MaxTasks : StreamEnd(t)
    \/ \E t \in 1..MaxTasks : StreamError(t)
    \/ \E t \in 1..MaxTasks : ConfirmPersisted(t)
    \/ SuggestionsFetched

\* the call awaited by the turn t returns or raises
Returns(t) ==
    \/ SendSessionCreated(t)
    \/ SendUserMsgSaved(t)
    \/ SendUrlsIdentified(t)
    \/ SendPlaceholderSaved(t)
    \/ ConfirmLookupDone(t)
    \/ StreamChunk(t)
    \/ StreamEnd(t)
    \/ StreamError(t)
    \/ ConfirmPersisted(t)

\* every awaited call eventually returns or raises
SpecLive ==
    /\ Init
    /\ [][LiveNext]_vars
    /\ \A t \in 1..MaxTasks : WF_vars(Returns(t))

\* the turn t is suspended at an await
InFlight(t) == tasks[t].pc \notin {"free", "done"}

\* C29: every turn started by handleSendMessage or handleConfirmSources
\* eventually ends with the global isLoading flag reset to false, whether its
\* awaited calls succeed or fail; and once no turn is in flight no message is
\* left with isLoading = true.
C29_TurnsEndNotLoading ==
    /\ \A t \in 1..MaxTasks :
          InFlight(t) ~> (tasks[t].pc = "done" /\ ~isLoading)
    /\ [](Quiescent => /\ ~isLoading
                       /\ \A i \in 1..Len(chatMessages) : ~chatMessages[i].isLoading)

\* a turn whose streaming call raised has ended
C29_Witness ==
    /\ \E t \in 1..MaxTasks : tasks[t].pc = "done"
    /\ Quiescent
    /\ \E i \in 1..Len(chatMessages) : IsErrorText(chatMessages[i].text)
    /\ dbErrors > 0

====
